---- MODULE Spec2Model ----
(***************************************************************************)
(* Browser-side fraud detector: the FraudDetector aggregator, the          *)
(* DevToolsDetector module, the LocationBehaviorAnalyzer and the pure      *)
(* helpers they use (timezone offsets, risk bands, signature checks).      *)
(*                                                                         *)
(* Units.  Latitude and longitude are integers in 1e-7 degree, so that the *)
(* literals of the source (37.4224764, -122.0842499, ...) are exact.       *)
(* UTC offsets are integers in minutes (the source uses hours, possibly    *)
(* fractional: 5.5 is 330 here).  Accuracy is in metres, times in ms.      *)
(***************************************************************************)
EXTENDS Integers, Sequences, FiniteSets, TLC

VARIABLES
    \* ---- the page and its environment ----
    phase,            \* "loading" | "ready" | "crashed"  (DOMContentLoaded handler)
    geoSupported,     \* navigator.geolocation is present
    browserTimezone,  \* Intl.DateTimeFormat().resolvedOptions().timeZone
    isMobile,         \* isMobileDevice(): the user agent matches the mobile pattern
    env,              \* screen / user agent / device signals (fixed for the session)
    sizeDiff,         \* max(outerWidth - innerWidth, outerHeight - innerHeight), px
    consoleShown,     \* a developer console is rendering what is logged
    uncaught,         \* errors nobody caught (sequence of names)
    \* ---- FraudDetector (the aggregator) ----
    locationData,     \* this.locationData (NoFix for null)
    environmentData,  \* this.environmentData: a function from the keys present
    devToolsDetected, extensionDetected, consoleOverridden,
    deviceMaskingDetected, vpnDetected,
    behavioralScore, behavioralIndicators, locationSpoofedByBehavior,
    locationSpoofedByDevTools, locationSpoofingScore, locationSpoofingIndicators,
    \* ---- performFullAnalysis / handleLocateClick ----
    pc,               \* "idle" | "masking" | "locating"
    outcome,          \* what the last performFullAnalysis gave its caller
    \* ---- DevToolsDetector module ----
    globalUIController, \* setUIController was called
    devToolsOpen,       \* module flag set by the console getter
    probeTimers,        \* number of pending 100 ms timers of checkConsoleDetection
    \* ---- LocationBehaviorAnalyzer ----
    locationHistory, watchId, monitoringActive, stopTimers, monitoringSince,
    analyzerScore, analyzerIndicators, now,
    arrivals,         \* every fix the watch has passed to analyzeLocationUpdate
    \* ---- bookkeeping of the verification (not program state) ----
    passive,          \* the scores the passive checks computed at construction
    increments,       \* the increments background monitors made since then
    channelFired,     \* a DevTools channel has fired in this session
    domInsertions,    \* marked nodes inserted so far (bounds the model)
    analyses,         \* analyses started so far (bounds the model)
    riskQuery, riskAnswer, \* a call of getRiskLevel and its result
    rdpAssessment,         \* the three RDP/VM checks and their overall verdict
    \* ---- ExtensionDetector / VPNDetector scans and console.error ----
    scans,            \* invocations of performFullExtensionDetection so far
    consoleError,     \* console.error: 0 the function before any scan, k the
                      \* wrapper installed by scan k
    originalOf,       \* originalOf[k]: originalConsoleError captured by scan k
                      \* (-1 when scan k did not reach the interception)
    restoreTimers,    \* pending 100 ms restore timers (scan ids, oldest first)
    errorSeen,        \* scans whose extensionErrorDetected flag is set
    lateHits,         \* scans whose timer added its 20 points after the return
    extensionResult,  \* what the last performFullExtensionDetection returned
    vpnResult,        \* what the last performFullVPNDetection returned
    maskingResult,    \* how the last runChecks ended
    positionRequests, \* options of the getCurrentPosition calls the current
                      \* performFullAnalysis has made
    runs              \* the fix and the report of every analysis that returned one

vars == <<phase, geoSupported, browserTimezone, isMobile, env, sizeDiff, consoleShown, uncaught,
          locationData, environmentData, devToolsDetected, extensionDetected,
          consoleOverridden, deviceMaskingDetected, vpnDetected,
          behavioralScore, behavioralIndicators, locationSpoofedByBehavior,
          locationSpoofedByDevTools, locationSpoofingScore, locationSpoofingIndicators,
          pc, outcome, globalUIController, devToolsOpen, probeTimers,
          locationHistory, watchId, monitoringActive, stopTimers, monitoringSince,
          analyzerScore, analyzerIndicators, now, arrivals,
          passive, increments, channelFired, domInsertions, analyses,
          riskQuery, riskAnswer, rdpAssessment,
          scans, consoleError, originalOf, restoreTimers, errorSeen, lateHits,
          extensionResult, vpnResult, maskingResult,
                   positionRequests, runs>>

----------------------------------------------------------------------------
(* Small helpers.                                                          *)

Abs(x) == IF x < 0 THEN -x ELSE x

RECURSIVE SumSeq(_)
SumSeq(s) == IF s = <<>> THEN 0 ELSE Head(s) + SumSeq(Tail(s))

RECURSIVE FlatMap(_)
\* concatenation of a sequence of sequences ([...a, ...b, ...])
FlatMap(ss) == IF ss = <<>> THEN <<>> ELSE Head(ss) \o FlatMap(Tail(ss))

Range(s) == {s[i] : i \in DOMAIN s}

\* `obj.key || dflt` on an object whose keys may be missing
Get(obj, key, dflt) == IF key \in DOMAIN obj THEN obj[key] ELSE dflt

\* obj with obj.key = val stored (the other keys kept)
Put(obj, key, val) == [k \in (DOMAIN obj) \cup {key} |-> IF k = key THEN val ELSE obj[k]]

----------------------------------------------------------------------------
(* JavaScript numbers as far as the timezone comparison needs them: a      *)
(* value is a number, a string, or NaN.                                    *)

Num(n) == [t |-> "num", v |-> n]
NaN == [t |-> "nan", v |-> 0]
\* the string `UTC+7` / `UTC-5`, remembered by the offset it spells (hours)
UtcString(h) == [t |-> "str", v |-> h]

\* ToNumber: a string such as "UTC+7" is not numeric
ToNumber(x) == IF x.t = "num" THEN x ELSE NaN

JsMinus(a, b) ==
    LET x == ToNumber(a)
        y == ToNumber(b)
    IN IF x.t = "nan" \/ y.t = "nan" THEN NaN ELSE Num(x.v - y.v)

MathAbs(a) == IF a.t = "num" THEN Num(Abs(a.v)) ELSE NaN

\* a > n: every comparison with NaN is false
JsGreater(a, n) == a.t = "num" /\ a.v > n

----------------------------------------------------------------------------
(* Indicator texts.  An indicator is the string the source pushes, with    *)
(* its interpolated numbers left out.  Includes(s, pat) is                 *)
(* String.prototype.includes restricted to the patterns the source tests.  *)

IndFastResponse == "Suspiciously fast geolocation response"
IndHighAccuracy == "Unrealistically high accuracy"
IndLowAccuracy == "Very low accuracy"
IndRounded == "Coordinates appear rounded/artificial"
IndTimezone == "Timezone mismatch: Browser(..) vs Location(UTC..)"
IndSuspiciousArea == "Location appears to be in suspicious area"
IndAccuracy150 == "DevTools signature: accuracy exactly 150m detected"
IndDefaultLocation(name) == "DevTools default location detected: " \o name
IndPrecision == "Unrealistic coordinate precision detected"
IndEmulator(name) == "Emulator coordinates detected: " \o name
IndCriticalDevTools == "CRITICAL: DevTools detected (..) - Location cannot be trusted"
IndImpossibleSpeed == "Impossible travel speed: .. km/h over ..m"
IndSuspiciousSpeed == "Suspicious travel speed: .. km/h over ..m"
IndStaticAccuracy == "Static accuracy value: ..m (never changes)"
IndCommonSpoofedAccuracy == "Common spoofed accuracy value: ..m"
IndPreciseCoords == "Suspiciously precise coordinates: .. (../.. decimals)"
IndRoundCoords == "Perfect round coordinates detected: .."
IndHighAccuracyAvg == "Unrealistically high accuracy: avg ..m, max ..m"
IndAccuracySwing == "Extreme accuracy variations: ..m to ..m"

devToolsDefaults ==
    << [lat |-> 374224764, lng |-> -1220842499, name |-> "Google HQ (DevTools default)"],
       [lat |-> 373860520, lng |-> -1220838510, name |-> "Mountain View (DevTools default)"],
       [lat |-> 377749000, lng |-> -1224194000, name |-> "San Francisco (DevTools default)"],
       [lat |-> 407128000, lng |-> -740060000, name |-> "New York (DevTools default)"],
       [lat |-> 515074000, lng |-> -1278000, name |-> "London (DevTools default)"] >>

\* The Android emulator default is 37.421998333333335, -122.08400000000002: no
\* multiple of 1e-7 degree.  lo/hi are the whole 1e-7-degree values strictly
\* within 0.001 degree of it; for Null Island they are those within 0.001 of 0.
emulatorCoords ==
    << [latLo |-> -9999, latHi |-> 9999, lngLo |-> -9999, lngHi |-> 9999,
        name |-> "Null Island (0,0)"],
       [latLo |-> 374209984, latHi |-> 374229983,
        lngLo |-> -1220850000, lngHi |-> -1220830001,
        name |-> "Android Emulator Default"] >>

PatternsIn(s) ==
    IF s = IndTimezone THEN {"Timezone mismatch"}
    ELSE IF s = IndAccuracy150 THEN {"DevTools signature", "accuracy exactly 150"}
    ELSE IF \E i \in DOMAIN devToolsDefaults : s = IndDefaultLocation(devToolsDefaults[i].name)
         THEN {"DevTools default location"} \cup
              {devToolsDefaults[i].name : i \in {j \in DOMAIN devToolsDefaults :
                                                   s = IndDefaultLocation(devToolsDefaults[j].name)}}
    ELSE IF \E i \in DOMAIN emulatorCoords : s = IndEmulator(emulatorCoords[i].name)
         THEN {"Emulator coordinates detected"} \cup
              {emulatorCoords[i].name : i \in {j \in DOMAIN emulatorCoords :
                                                 s = IndEmulator(emulatorCoords[j].name)}}
    ELSE {}

Includes(s, pat) == pat \in PatternsIn(s)

----------------------------------------------------------------------------
(* Timezone helpers.                                                       *)

\* What Intl.DateTimeFormat('en-CA', {timeZone, timeZoneName: 'longOffset'})
\* prints for the reference instant 2024-01-15T12:00:00Z.
LongOffset(timezoneName) ==
    CASE timezoneName = "Asia/Saigon" -> [gmt |-> TRUE, sign |-> "+", hours |-> 7, minutes |-> 0]
      [] timezoneName = "America/New_York" -> [gmt |-> TRUE, sign |-> "-", hours |-> 5, minutes |-> 0]
      [] timezoneName = "America/Los_Angeles" -> [gmt |-> TRUE, sign |-> "-", hours |-> 8, minutes |-> 0]
      [] timezoneName = "Asia/Tokyo" -> [gmt |-> TRUE, sign |-> "+", hours |-> 9, minutes |-> 0]
      [] timezoneName = "Asia/Kolkata" -> [gmt |-> TRUE, sign |-> "+", hours |-> 5, minutes |-> 30]
      [] OTHER -> [gmt |-> TRUE, sign |-> "", hours |-> 0, minutes |-> 0]  \* "GMT" for UTC

\* getTimezoneOffsetFromName: the offset as a number (here in minutes)
getTimezoneOffsetFromName(timezoneName) ==
    LET part == LongOffset(timezoneName)
    IN IF part.sign \in {"+", "-"}
       THEN Num((IF part.sign = "+" THEN 1 ELSE -1) * (part.hours * 60 + part.minutes))
       ELSE Num(0)    \* no match of /GMT([+-])(\d+)/, and the name is 'utc'

\* Math.round(lng / 15), lng in 1e-7 degree: floor(lng / 15 + 1/2)
RoundLngOver15(lng) == (lng + 75000000) \div 150000000

\* FraudDetector.getTimezoneFromCoords: returns the STRING `UTC+7`
getTimezoneFromCoords(lat, lng) == UtcString(RoundLngOver15(lng))

\* TimezoneLogic of timezone-final-test.js: returns the number
TestGetTimezoneFromCoords(lat, lng) == Num(RoundLngOver15(lng) * 60)

\* TimezoneLogic.checkTimezoneMatch(...).isMismatch
checkTimezoneMatch(timezoneName, lat, lng) ==
    LET browserOffset == getTimezoneOffsetFromName(timezoneName)
        locationOffset == TestGetTimezoneFromCoords(lat, lng)
        difference == MathAbs(JsMinus(browserOffset, locationOffset))
    IN JsGreater(difference, 60)

\* The timezone block of detectLocationSpoofing: Math.abs(browserOffset - locationOffset) > 1.
\* The string is in hours; as a number it would be that many hours.
HoursAsMinutes(x) == IF x.t = "num" THEN Num(x.v * 60) ELSE x
TimezoneBlockFires(timezoneName, lat, lng) ==
    LET browserOffset == getTimezoneOffsetFromName(timezoneName)
        locationOffset == HoursAsMinutes(getTimezoneFromCoords(lat, lng))
    IN JsGreater(MathAbs(JsMinus(browserOffset, locationOffset)), 60)

----------------------------------------------------------------------------
(* Location checks of the aggregator.                                      *)

NoFix == [latitude |-> 0, longitude |-> 0, accuracy |-> 0, responseTime |-> 0, present |-> FALSE]

\* |a - b| < eps without forming a - b
Within(a, b, eps) == a > b - eps /\ a < b + eps

\* Math.abs(x % 1) < 0.001
FractionBelowThousandth(x) == (Abs(x) % 10000000) < 10000

\* x.toString().includes('.000000') for x with at most 7 decimals: the decimals
\* are 000000d with d in 1..9, and x is not printed in exponent form
HasSixZeroDecimals(x) == (Abs(x) % 10000000) \in 1..9 /\ Abs(x) >= 10000000

isSuspiciousLocation(lat, lng) ==
    \/ (Abs(lat) < 1000000 /\ Abs(lng) < 1000000)
    \/ \E c \in { <<377749000, -1224194000>>, <<407128000, -740060000>>,
                  <<515074000, -1278000>> } :
          Within(lat, c[1], 100000) /\ Within(lng, c[2], 100000)

\* variant: only the accuracy signature is looked at
detectLocationSignaturesAccuracyOnly(loc) ==
    IF loc.present /\ loc.accuracy = 150
    THEN [signatureScore |-> 50, signatureIndicators |-> <<IndAccuracy150>>]
    ELSE [signatureScore |-> 0, signatureIndicators |-> <<>>]

\* variant: the signatures tag the fix and add no points
detectLocationSignaturesTagOnly(loc) ==
    IF loc.present /\ loc.accuracy = 150
    THEN [signatureScore |-> 0, signatureIndicators |-> <<IndAccuracy150>>]
    ELSE [signatureScore |-> 0, signatureIndicators |-> <<>>]

detectLocationSignatures(loc) ==
    IF ~loc.present THEN [signatureScore |-> 0, signatureIndicators |-> <<>>]
    ELSE
    LET acc == IF loc.accuracy = 150 THEN << <<50, IndAccuracy150>> >> ELSE <<>>
        dflt == SelectSeq([i \in DOMAIN devToolsDefaults |->
                              IF Within(loc.latitude, devToolsDefaults[i].lat, 1000)
                                 /\ Within(loc.longitude, devToolsDefaults[i].lng, 1000)
                              THEN <<60, IndDefaultLocation(devToolsDefaults[i].name)>>
                              ELSE <<0, "">>],
                          LAMBDA h : h[1] > 0)
        prec == IF HasSixZeroDecimals(loc.latitude) \/ HasSixZeroDecimals(loc.longitude)
                THEN << <<30, IndPrecision>> >> ELSE <<>>
        emu == SelectSeq([i \in DOMAIN emulatorCoords |->
                              IF loc.latitude >= emulatorCoords[i].latLo
                                 /\ loc.latitude <= emulatorCoords[i].latHi
                                 /\ loc.longitude >= emulatorCoords[i].lngLo
                                 /\ loc.longitude <= emulatorCoords[i].lngHi
                              THEN <<40, IndEmulator(emulatorCoords[i].name)>>
                              ELSE <<0, "">>],
                         LAMBDA h : h[1] > 0)
        hits == acc \o dflt \o prec \o emu
    IN [signatureScore |-> SumSeq([i \in DOMAIN hits |-> hits[i][1]]),
        signatureIndicators |-> [i \in DOMAIN hits |-> hits[i][2]]]

checkCriticalSpoofingIndicators(indicators) ==
    LET criticalPatterns ==
          {"DevTools signature", "DevTools default location", "Timezone mismatch",
           "accuracy exactly 150", "Google HQ (DevTools default)",
           "Mountain View (DevTools default)", "San Francisco (DevTools default)",
           "New York (DevTools default)", "London (DevTools default)",
           "Android Emulator Default", "Null Island (0,0)", "Emulator coordinates detected"}
    IN \E i \in DOMAIN indicators : \E pat \in criticalPatterns : Includes(indicators[i], pat)

\* variant: the score alone decides, and only above 20
SpoofingVerdictAbove20(spoofingScore, spoofingIndicators, byDevTools, byBehavior) ==
    spoofingScore > 20 \/ byDevTools \/ byBehavior

\* The final verdict of detectLocationSpoofing (the returned isLocationSpoofed)
SpoofingVerdict(spoofingScore, spoofingIndicators, byDevTools, byBehavior) ==
    LET criticalIndicators == checkCriticalSpoofingIndicators(spoofingIndicators)
        hasTimezoneIssue == \E i \in DOMAIN spoofingIndicators :
                                Includes(spoofingIndicators[i], "Timezone mismatch")
        hasDevToolsSignature == \E i \in DOMAIN spoofingIndicators :
                                \/ Includes(spoofingIndicators[i], "DevTools signature")
                                \/ Includes(spoofingIndicators[i], "DevTools default location")
                                \/ Includes(spoofingIndicators[i], "accuracy exactly 150")
    IN \/ spoofingScore >= 20
       \/ byDevTools
       \/ byBehavior
       \/ criticalIndicators
       \/ hasTimezoneIssue
       \/ hasDevToolsSignature

\* detectLocationSpoofing on the aggregator state d (the fields it reads)
detectLocationSpoofing(loc, timezoneName, d) ==
    LET fast == IF loc.responseTime < 100 THEN << <<15, IndFastResponse>> >> ELSE <<>>
        accu == IF loc.accuracy < 5 THEN << <<10, IndHighAccuracy>> >>
                ELSE IF loc.accuracy > 10000 THEN << <<5, IndLowAccuracy>> >> ELSE <<>>
        rnd == IF FractionBelowThousandth(loc.latitude) \/ FractionBelowThousandth(loc.longitude)
               THEN << <<20, IndRounded>> >> ELSE <<>>
        tz == IF TimezoneBlockFires(timezoneName, loc.latitude, loc.longitude)
              THEN << <<25, IndTimezone>> >> ELSE <<>>
        area == IF isSuspiciousLocation(loc.latitude, loc.longitude)
                THEN << <<30, IndSuspiciousArea>> >> ELSE <<>>
        own == fast \o accu \o rnd \o tz \o area
        sig == detectLocationSignatures(loc)
        dt == IF d.locationSpoofedByDevTools
              THEN [score |-> IF d.locationSpoofingScore # 0 THEN d.locationSpoofingScore ELSE 100,
                    indicators |-> d.locationSpoofingIndicators]
              ELSE [score |-> 0, indicators |-> <<>>]
        beh == IF d.behavioralScore > 0
               THEN [score |-> d.behavioralScore, indicators |-> d.behavioralIndicators]
               ELSE [score |-> 0, indicators |-> <<>>]
        spoofingScore == SumSeq([i \in DOMAIN own |-> own[i][1]])
                         + sig.signatureScore + dt.score + beh.score
        spoofingIndicators == [i \in DOMAIN own |-> own[i][2]] \o sig.signatureIndicators
                              \o dt.indicators \o beh.indicators
    IN [spoofingScore |-> spoofingScore,
        spoofingIndicators |-> spoofingIndicators,
        isLocationSpoofed |-> SpoofingVerdict(spoofingScore, spoofingIndicators,
                                              d.locationSpoofedByDevTools,
                                              d.locationSpoofedByBehavior)]

\* variant: the band edges belong to the lower band
getRiskLevelInclusive(score) ==
    IF score <= 20 THEN "LOW"
    ELSE IF score <= 40 THEN "MEDIUM"
    ELSE IF score <= 60 THEN "HIGH"
    ELSE "CRITICAL"

getRiskLevel(score) ==
    IF score < 20 THEN "LOW"
    ELSE IF score < 40 THEN "MEDIUM"
    ELSE IF score < 60 THEN "HIGH"
    ELSE "CRITICAL"

----------------------------------------------------------------------------
(* The environment of a session: what the browser reports.  A session      *)
(* draws one profile; the profile does not change while the page lives.    *)

CleanDesktop ==
    [name |-> "clean", width |-> 2560, height |-> 1440, colorDepth |-> 24,
     uaRemote |-> FALSE, uaVirtual |-> FALSE,
     toStringPatched |-> FALSE, devtoolsHook |-> FALSE, consolePatched |-> 0,
     vytal |-> FALSE, webrtcPatched |-> FALSE, vpnGlobal |-> FALSE,
     webrtcBroken |-> FALSE, xhrBroken |-> FALSE, cssVar |-> FALSE,
     connectionOther |-> FALSE,
     canvas |-> "ok", audio |-> "ok", media |-> "ok",
     pixelRatio |-> 100,     \* devicePixelRatio, in hundredths
     cores |-> 8,            \* navigator.hardwareConcurrency, 0 when undefined
     webgl |-> "ok", commonAspect |-> TRUE, genericZone |-> FALSE]

OfficeDesktop ==
    [CleanDesktop EXCEPT !.name = "office", !.width = 1920, !.height = 1080,
                         !.webgl = "no-debug-info"]

TamperedBrowser ==
    [CleanDesktop EXCEPT !.name = "tampered", !.devtoolsHook = TRUE,
                         !.consolePatched = 1, !.vytal = TRUE,
                         !.webrtcPatched = TRUE, !.vpnGlobal = TRUE]

EnvProfiles == {CleanDesktop, OfficeDesktop, TamperedBrowser}

Zones == {"Asia/Saigon", "America/New_York", "America/Los_Angeles"}

SizeDiffs == {0, 180, 250}

\* The fixes the geolocation provider may deliver to getCurrentPosition.
Fix(lat, lng, acc, rt) ==
    [latitude |-> lat, longitude |-> lng, accuracy |-> acc, responseTime |-> rt,
     present |-> TRUE]

GoogleHQ150 == Fix(374224764, -1220842499, 150, 300)
HoChiMinh == Fix(108231000, 1066297000, 15, 300)
HoChiMinh150 == Fix(108231000, 1066297000, 150, 300)
NewYork == Fix(407128000, -740060000, 15, 300)
NullIsland == Fix(0, 0, 3, 50)
RoundedCoarse == Fix(100005000, 1066297000, 5000, 300)

Fixes == {GoogleHQ150, HoChiMinh, HoChiMinh150, NewYork, NullIsland, RoundedCoarse}

----------------------------------------------------------------------------
(* Passive checks of the constructor (initializeDetection).                *)

\* detectDevToolsInitial: [score, indicators, detected]
detectDevToolsInitial(e, diff, detectedBefore) ==
    LET timing == <<>>     \* two clock reads with no statement between them
        size == IF diff > 200
                THEN << <<20, "DevTools panel detected via window dimensions", TRUE>> >>
                ELSE <<>>
        tostr == IF e.toStringPatched
                 THEN << <<25, "Function toString override detected", FALSE>> >> ELSE <<>>
        \* the check itself calls the console.log it has just wrapped
        cons == << <<15, "Console usage detected", FALSE>> >>
        hook == IF e.devtoolsHook
                THEN << <<20, "DevTools global objects detected", TRUE>> >> ELSE <<>>
        hits == timing \o size \o tostr \o cons \o hook
    IN [score |-> SumSeq([i \in DOMAIN hits |-> hits[i][1]]),
        indicators |-> [i \in DOMAIN hits |-> hits[i][2]],
        detected |-> detectedBefore \/ \E i \in DOMAIN hits : hits[i][3]]

\* detectConsoleOverrides: [score, indicators, overridden]
detectConsoleOverrides(e) ==
    LET patched == [i \in 1..e.consolePatched |-> "Console.<method> has been overridden"]
        \* testFunction.toString is assigned and then compared with the old text
        modified == <<"Function toString modification detected">>
    IN [score |-> 10 * e.consolePatched + 15,
        indicators |-> patched \o modified,
        overridden |-> e.consolePatched > 0]

\* Sum and texts of a sequence of hits <<points, text, ...>>
HitScore(hits) == SumSeq([i \in DOMAIN hits |-> hits[i][1]])

HitTexts(hits) == [i \in DOMAIN hits |-> hits[i][2]]

\* ExtensionDetector.detectBasicArtifacts: hits <<points, text, sets detected>>.
\* It has no try: the Location Guard check reads
\* navigator.geolocation.getCurrentPosition, and the WebRTC check reads
\* RTCPeerConnection.prototype.createDataChannel.toString(); when the first
\* object is absent (geo = FALSE) or the second has no createDataChannel
\* (webrtcBroken) the TypeError leaves the method (threw).
detectBasicArtifacts(e, geo) ==
    LET hits == (IF e.vytal THEN << <<40, "Vytal extension detected", TRUE>> >> ELSE <<>>)
                \o (IF e.webrtcPatched /\ ~e.webrtcBroken
                    THEN << <<20, "WebRTC modifications detected (possible VPN)", FALSE>> >>
                    ELSE <<>>)
    IN [threw |-> ~geo \/ e.webrtcBroken,
        score |-> HitScore(hits),
        indicators |-> HitTexts(hits),
        detected |-> \E i \in DOMAIN hits : hits[i][3]]

\* ExtensionDetector.detectExtensionsBySignature.  One try block holds its
\* five methods: 1 global objects and DOM selectors (window.vytal and
\* window.nordvpn match 'Vytal' and 'NordVPN' of the list), 2 fetch / XHR
\* integrity, 3 extension URLs, 4 CSS variables, 5 console.error
\* interception.  XMLHttpRequest without prototype.open (xhrBroken) throws in
\* method 2; the catch swallows it and methods 3 to 5 are not run.
\* ran: the methods that executed; intercepts: method 5 patched console.error.
detectExtensionsBySignature(e) ==
    LET method1 == (IF e.vytal
                    THEN << <<50, "Vytal extension detected via global object", TRUE>> >>
                    ELSE <<>>)
                   \o (IF e.vpnGlobal
                       THEN << <<50, "NordVPN extension detected via global object", TRUE>> >>
                       ELSE <<>>)
        method4 == IF e.cssVar
                   THEN << <<15, "Extension-specific CSS variable detected: --vytal-color", TRUE>> >>
                   ELSE <<>>
        hits == IF e.xhrBroken THEN method1 ELSE method1 \o method4
    IN [threw |-> FALSE,
        ran |-> IF e.xhrBroken THEN {1, 2} ELSE {1, 2, 3, 4, 5},
        intercepts |-> ~e.xhrBroken,
        score |-> HitScore(hits),
        indicators |-> HitTexts(hits),
        detected |-> \E i \in DOMAIN hits : hits[i][3]]

\* ExtensionDetector.performFullExtensionDetection: [score, indicators,
\* detected]; threw when detectBasicArtifacts threw (the signature scan is
\* then not reached)
performFullExtensionDetection(e, geo) ==
    LET basicDetection == detectBasicArtifacts(e, geo)
        signatureDetection == detectExtensionsBySignature(e)
    IN IF basicDetection.threw
       THEN [threw |-> TRUE, ran |-> {}, intercepts |-> FALSE,
             score |-> 0, indicators |-> <<>>, detected |-> FALSE]
       ELSE [threw |-> FALSE,
             ran |-> signatureDetection.ran,
             intercepts |-> signatureDetection.intercepts,
             score |-> basicDetection.score + signatureDetection.score,
             indicators |-> basicDetection.indicators \o signatureDetection.indicators,
             detected |-> basicDetection.detected \/ signatureDetection.detected]

\* VPNDetector.detectVPN.  One try block holds its seven methods: 1 provider
\* globals / DOM / user agent, 2 extension URLs, 3 WebRTC integrity,
\* 4 connection type, 5 user-agent keywords, 6 DoH, 7 enterprise proxy.
\* RTCPeerConnection without createDataChannel (webrtcBroken) throws in
\* method 3; the catch logs it and methods 4 to 7 are not run.
detectVPN(e) ==
    LET method1 == IF e.vpnGlobal
                   THEN << <<50, "NordVPN VPN detected via global object (nordvpn)">> >>
                   ELSE <<>>
        method3 == IF e.webrtcPatched
                   THEN << <<25, "WebRTC modifications detected (possible VPN IP leak protection)">> >>
                   ELSE <<>>
        method4 == IF e.connectionOther
                   THEN << <<15, "Unusual network connection type detected">> >>
                   ELSE <<>>
        hits == IF e.webrtcBroken THEN method1 ELSE method1 \o method3 \o method4
        vpnScore == HitScore(hits)
    IN [threw |-> FALSE,
        ran |-> IF e.webrtcBroken THEN {1, 2, 3} ELSE {1, 2, 3, 4, 5, 6, 7},
        score |-> vpnScore,
        indicators |-> HitTexts(hits),
        detected |-> vpnScore > 0]

\* VPNDetector.performFullVPNDetection: the result of detectVPN, logged
performFullVPNDetection(e) == detectVPN(e)

\* the checks of detectRemoteDesktop: rdpScore, rdpIndicators, isRemoteDesktop
RemoteDesktopChecks(e) ==
    LET res == IF <<e.width, e.height>> \in
                    { <<1024, 768>>, <<1280, 1024>>, <<1440, 900>>, <<1920, 1080>> }
               THEN << <<10, "Common RDP resolution detected">> >> ELSE <<>>
        depth == IF e.colorDepth < 24
                 THEN << <<15, "Low color depth (typical of RDP)">> >> ELSE <<>>
        remote == IF e.uaRemote THEN << <<20, "RDP indicator in user agent">> >> ELSE <<>>
        virt == IF e.uaVirtual THEN << <<25, "Virtualization detected">> >> ELSE <<>>
        hits == res \o depth \o remote \o virt
        rdpScore == SumSeq([i \in DOMAIN hits |-> hits[i][1]])
    IN [k \in {"rdpScore", "rdpIndicators", "isRemoteDesktop"} |->
          CASE k = "rdpScore" -> rdpScore
            [] k = "rdpIndicators" -> [i \in DOMAIN hits |-> hits[i][2]]
            [] k = "isRemoteDesktop" -> rdpScore >= 20]

\* variant: the result is merged into the existing environmentData
detectRemoteDesktopMerging(e) ==
    LET fresh == RemoteDesktopChecks(e)
    IN [k \in (DOMAIN environmentData) \cup (DOMAIN fresh) |->
          IF k \in DOMAIN fresh THEN fresh[k] ELSE environmentData[k]]

\* detectRemoteDesktop: the object it ASSIGNS to this.environmentData, which
\* holds the keys of this run only
detectRemoteDesktop(e) == RemoteDesktopChecks(e)

\* |w / h - p / q| < 0.01, for h > 0
NearRatio(w, h, p, q) ==
    LET d == w * q - p * h
    IN 100 * (IF d < 0 THEN -d ELSE d) < q * h

\* checkScreenProperties: [suspicion, factors]
checkScreenProperties(e) ==
    LET depth == IF e.colorDepth < 24 THEN <<"Low Color Depth">> ELSE <<>>
        ratio == IF e.pixelRatio < 100 /\ e.pixelRatio <= 75
                 THEN <<"Unusual Device Pixel Ratio">> ELSE <<>>
        small == IF (e.width < 1024 \/ e.height < 768) /\ e.width > 0 /\ e.height > 0
                 THEN <<"Very Small Resolution">> ELSE <<>>
        isCommonAspectRatio ==
            /\ e.height > 0
            /\ \E r \in { <<16, 9>>, <<16, 10>>, <<4, 3>>, <<5, 4>> } :
                   NearRatio(e.width, e.height, r[1], r[2])
        aspect == IF ~isCommonAspectRatio THEN <<"Uncommon Aspect Ratio">> ELSE <<>>
        factors == depth \o ratio \o small \o aspect
    IN [suspicion |-> IF factors = <<>> THEN "Normal" ELSE "Suspicious",
        factors |-> factors]

\* checkWebGLRenderer: [suspicion, factors].  Of the renderers a profile may
\* report only llvmpipe is on the keyword list; an exception while the
\* context is obtained gives 'Could not determine'.
checkWebGLRenderer(e) ==
    IF e.webgl = "webgl-error"
    THEN [suspicion |-> "Could not determine", factors |-> <<"Error">>]
    ELSE IF e.webgl = "llvmpipe"
    THEN [suspicion |-> "Suspicious", factors |-> <<"WebGL contains 'llvmpipe'">>]
    ELSE [suspicion |-> "Normal", factors |-> <<>>]

\* checkNavigatorProperties: [suspicion, factors].  uaVirtual: the user
\* agent names VirtualBox, VMware or QEMU.
checkNavigatorProperties(e) ==
    LET ua == IF e.uaVirtual THEN <<"User Agent contains 'vmware'">> ELSE <<>>
        cpu == IF e.cores # 0 /\ e.cores < 2
               THEN <<"Low Hardware Concurrency">> ELSE <<>>
        factors == ua \o cpu
    IN [suspicion |-> IF factors = <<>> THEN "Normal" ELSE "Suspicious",
        factors |-> factors]

\* "Screen: f" for every factor f of a result
Labelled(label, factors) == [i \in DOMAIN factors |-> label \o factors[i]]

\* variant: a Suspicious WebGL result weighs 2 points, like the other two
getOverallRDPSuspicionEqualWeights(screenResult, webglResult, navigatorResult) ==
    LET points == (IF screenResult.suspicion = "Suspicious" THEN 2 ELSE 0)
                  + (IF webglResult.suspicion = "Suspicious" THEN 2 ELSE 0)
                  + (IF navigatorResult.suspicion = "Suspicious" THEN 2 ELSE 0)
    IN [level |-> IF points >= 5 THEN "High" ELSE IF points >= 3 THEN "Medium" ELSE "Low",
        type |-> IF points >= 5 THEN "fake"
                 ELSE IF points >= 3 THEN "suspicious" ELSE "authentic",
        score |-> points,
        factors |-> <<>>]

\* getOverallRDPSuspicion: [level, type, score, factors]
getOverallRDPSuspicion(screenResult, webglResult, navigatorResult) ==
    LET screen == IF screenResult.suspicion = "Suspicious"
                  THEN <<2, Labelled("Screen: ", screenResult.factors)>> ELSE <<0, <<>> >>
        webgl == IF webglResult.suspicion = "Suspicious"
                 THEN <<3, Labelled("WebGL: ", webglResult.factors)>> ELSE <<0, <<>> >>
        nav == IF navigatorResult.suspicion = "Suspicious"
               THEN <<2, Labelled("Navigator: ", navigatorResult.factors)>> ELSE <<0, <<>> >>
        totalSuspicionPoints == screen[1] + webgl[1] + nav[1]
        contributingFactors == screen[2] \o webgl[2] \o nav[2]
    IN [level |-> IF totalSuspicionPoints >= 5 THEN "High"
                  ELSE IF totalSuspicionPoints >= 3 THEN "Medium" ELSE "Low",
        type |-> IF totalSuspicionPoints >= 5 THEN "fake"
                 ELSE IF totalSuspicionPoints >= 3 THEN "suspicious" ELSE "authentic",
        score |-> totalSuspicionPoints,
        factors |-> IF Len(contributingFactors) > 0 THEN contributingFactors
                    ELSE <<"No significant indicators detected.">>]

\* DeviceDataMaskingDetector.runChecks: [score, indicators, isMasked].
\* Check 1 (canvas): getContext('2d') giving null makes the executor of
\* #getCanvasFingerprint throw on ctx.textBaseline, and crypto.subtle.digest
\* may reject (or crypto.subtle be undefined); either way the awaited promise
\* rejects and, runChecks having no try, so does runChecks (threw).  Checks 2
\* (WebGL), 3 (audio) and 9 (media devices) catch their own errors.  Checks 4,
\* 6 and 7 (CPU cores, screen, timezone) are computed; checks 5, 8 and 10
\* (memory, plugins, platform) read values every profile keeps ordinary.
\* ran: the checks that executed.
runChecks(e, timezoneName) ==
    LET canvas == IF e.canvas = "blocked"
                  THEN << <<20, "Canvas fingerprint appears to be manipulated">> >>
                  ELSE <<>>
        webgl == IF e.webgl \in {"no-webgl", "webgl-error"}
                 THEN << <<15, "WebGL is unavailable or errored, may indicate masking">> >>
                 ELSE IF e.webgl \in {"swiftshader", "llvmpipe"}
                 THEN << <<30, "Software rendering or virtualization detected in WebGL">> >>
                 ELSE IF e.webgl = "no-debug-info"
                 THEN << <<10, "WebGL debug info is unavailable, could be a privacy tool">> >>
                 ELSE <<>>
        audio == IF e.audio = "error"
                 THEN << <<10, "Audio context unavailable or blocked">> >> ELSE <<>>
        cpu == IF e.cores # 0 /\ e.cores < 2
               THEN << <<10, "Very low number of CPU cores reported, potentially a VM/emulation">> >>
               ELSE <<>>
        small == IF e.width < 320 \/ e.height < 480
                 THEN << <<15, "Extremely low screen resolution detected">> >> ELSE <<>>
        aspect == IF ~e.commonAspect /\ e.width > 0 /\ e.height > 0
                  THEN << <<5, "Unusual screen aspect ratio">> >> ELSE <<>>
        vmres == IF <<e.width, e.height>> \in
                      { <<1024, 768>>, <<800, 600>>, <<1280, 720>>, <<1366, 768>> }
                    /\ e.colorDepth <= 16
                 THEN << <<8, "VM-typical resolution with low color depth">> >> ELSE <<>>
        zone == IF timezoneName \in {"UTC", "GMT", "Etc/UTC", "Etc/GMT"}
                THEN << <<15, "Generic/unspecific timezone detected">> >> ELSE <<>>
        media == IF e.media = "error"
                 THEN << <<10, "Media devices API error or blocked">> >> ELSE <<>>
        hits == canvas \o webgl \o audio \o cpu \o small \o aspect \o vmres \o zone \o media
        score == SumSeq([i \in DOMAIN hits |-> hits[i][1]])
    IN IF e.canvas \in {"no-context", "digest-rejects"}
       THEN [threw |-> TRUE,
             message |-> IF e.canvas = "no-context"
                         THEN "Cannot set properties of null (setting 'textBaseline')"
                         ELSE "digest failed",
             ran |-> {1}, score |-> 0, indicators |-> <<>>, isMasked |-> FALSE]
       ELSE [threw |-> FALSE, message |-> "", ran |-> 1..10,
             score |-> score,
             indicators |-> [i \in DOMAIN hits |-> hits[i][2]],
             isMasked |-> score >= 25]

----------------------------------------------------------------------------
(* Bounds of the model.                                                    *)

MaxAnalyses == 1        \* clicks on "Locate Me" in a session
MaxDomInsertions == 1   \* marked nodes the page inserts
MaxProbeTimers == 1     \* pending 100 ms timers of the console probe

----------------------------------------------------------------------------
(* The aggregator fields the DevTools channels write, as one record, so    *)
(* that a handler calling several of them is one step.                     *)

Agg == [devToolsDetected |-> devToolsDetected,
        environmentData |-> environmentData,
        locationSpoofedByDevTools |-> locationSpoofedByDevTools,
        locationSpoofingScore |-> locationSpoofingScore,
        locationSpoofingIndicators |-> locationSpoofingIndicators,
        increments |-> increments,
        channelFired |-> channelFired]

SetAgg(d) ==
    /\ devToolsDetected' = d.devToolsDetected
    /\ environmentData' = d.environmentData
    /\ locationSpoofedByDevTools' = d.locationSpoofedByDevTools
    /\ locationSpoofingScore' = d.locationSpoofingScore
    /\ locationSpoofingIndicators' = d.locationSpoofingIndicators
    /\ increments' = d.increments
    /\ channelFired' = d.channelFired

\* environmentData.<scoreKey> += points; environmentData.<listKey>.push(text)
AddScore(data, scoreKey, listKey, points, text) ==
    Put(Put(data, scoreKey, Get(data, scoreKey, 0) + points),
        listKey, Append(Get(data, listKey, <<>>), text))

\* devtools-detector.js markLocationAsSpoofed
markLocationAsSpoofed(d) ==
    [d EXCEPT !.locationSpoofedByDevTools = TRUE,
              !.locationSpoofingScore = @ + 100,
              !.locationSpoofingIndicators = Append(@, IndCriticalDevTools)]

\* devtools-detector.js handleDevToolsDetected (globalUIController is set)
handleDevToolsDetected(d) ==
    LET fired == [d EXCEPT !.channelFired = TRUE]
    IN IF ~fired.devToolsDetected
       THEN markLocationAsSpoofed(
              [fired EXCEPT !.devToolsDetected = TRUE,
                            !.environmentData =
                                AddScore(@, "devToolsScore", "devToolsIndicators", 25,
                                         "DevTools detected via .. (real-time detection)"),
                            !.increments = [@ EXCEPT !.devTools = @ + 25]])
       ELSE fired

\* variant: the flag follows the panel, cleared when the sizes agree again
checkDimensionDetectionTracksPanel(d, diff) ==
    IF diff > 160 THEN handleDevToolsDetected(d) ELSE [d EXCEPT !.devToolsDetected = FALSE]

\* devtools-detector.js checkDimensionDetection
checkDimensionDetection(d, diff) ==
    IF diff > 160 THEN handleDevToolsDetected(d) ELSE d

\* variant: the runtime check adds its score whenever the panel is open
detectDevToolsRuntimeEveryPoll(d, diff) ==
    LET fired == [d EXCEPT !.channelFired = @ \/ diff > 160]
    IN IF diff > 160
       THEN [fired EXCEPT !.devToolsDetected = TRUE,
                          !.environmentData =
                              AddScore(@, "devToolsScore", "devToolsIndicators", 25,
                                       "DevTools opened during session"),
                          !.increments = [@ EXCEPT !.devTools = @ + 25]]
       ELSE fired

\* FraudDetector.detectDevToolsRuntime
detectDevToolsRuntime(d, diff) ==
    LET fired == [d EXCEPT !.channelFired = @ \/ diff > 160]
    IN IF diff > 160 /\ ~fired.devToolsDetected
       THEN [fired EXCEPT !.devToolsDetected = TRUE,
                          !.environmentData =
                              AddScore(@, "devToolsScore", "devToolsIndicators", 25,
                                       "DevTools opened during session"),
                          !.increments = [@ EXCEPT !.devTools = @ + 25]]
       ELSE fired

----------------------------------------------------------------------------
(* Reports and outcomes.                                                   *)

NoReport == [present |-> FALSE]

NoOutcome == [kind |-> "none", message |-> "", report |-> NoReport]

Failure(message) == [kind |-> "error", message |-> message, report |-> NoReport]

\* The object performFullAnalysis returns, built from the environmentData
\* object `data` (envData and this.environmentData are the same object).
BuildReport(loc, locationAnalysis, data, flags) ==
    LET totalSuspicion == Get(data, "rdpScore", 0)
                          + locationAnalysis.spoofingScore
                          + Get(data, "devToolsScore", 0)
                          + Get(data, "consoleOverrideScore", 0)
                          + Get(data, "extensionScore", 0)
                          + Get(data, "maskingScore", 0)
                          + Get(data, "vpnScore", 0)
        allIndicators == locationAnalysis.spoofingIndicators
                         \o Get(data, "rdpIndicators", <<>>)
                         \o Get(data, "devToolsIndicators", <<>>)
                         \o Get(data, "consoleOverrides", <<>>)
                         \o Get(data, "extensionIndicators", <<>>)
                         \o Get(data, "maskingIndicators", <<>>)
                         \o Get(data, "vpnIndicators", <<>>)
    IN [present |-> TRUE,
        location |-> [latitude |-> loc.latitude, longitude |-> loc.longitude,
                      accuracy |-> loc.accuracy,
                      isSpoofed |-> locationAnalysis.isLocationSpoofed,
                      spoofingScore |-> locationAnalysis.spoofingScore,
                      indicators |-> locationAnalysis.spoofingIndicators],
        environment |-> [isRemoteDesktop |-> Get(data, "isRemoteDesktop", FALSE),
                         rdpScore |-> Get(data, "rdpScore", 0),
                         indicators |-> Get(data, "rdpIndicators", <<>>)],
        devTools |-> [detected |-> Get(data, "devToolsDetected", FALSE),
                      score |-> Get(data, "devToolsScore", 0),
                      indicators |-> Get(data, "devToolsIndicators", <<>>)],
        console |-> [overridden |-> flags.consoleOverridden,
                     score |-> Get(data, "consoleOverrideScore", 0),
                     indicators |-> Get(data, "consoleOverrides", <<>>)],
        extensions |-> [detected |-> flags.extensionDetected,
                        score |-> Get(data, "extensionScore", 0),
                        indicators |-> Get(data, "extensionIndicators", <<>>)],
        deviceMasking |-> [detected |-> flags.deviceMaskingDetected,
                           score |-> Get(data, "maskingScore", 0),
                           indicators |-> Get(data, "maskingIndicators", <<>>)],
        vpn |-> [detected |-> flags.vpnDetected,
                 score |-> Get(data, "vpnScore", 0),
                 indicators |-> Get(data, "vpnIndicators", <<>>)],
        overall |-> [suspicionScore |-> totalSuspicion,
                     riskLevel |-> getRiskLevel(totalSuspicion),
                     allIndicators |-> allIndicators]]

----------------------------------------------------------------------------
(* The session.                                                            *)

NoWatch == [present |-> FALSE, id |-> 0]

Watch(id) == [present |-> TRUE, id |-> id]

\* the ids navigator.geolocation.watchPosition may return
WatchIds == {0, 1}

SessionWatchIds == {1}

\* if (this.watchId): null and 0 are both falsy
Truthy(w) == w.present /\ w.id # 0

\* new FraudDetector(): the fields before initializeDetection has run
AggregatorInit ==
    /\ locationData = NoFix
    /\ environmentData = [k \in {} |-> 0]
    /\ devToolsDetected = FALSE
    /\ extensionDetected = FALSE
    /\ consoleOverridden = FALSE
    /\ deviceMaskingDetected = FALSE
    /\ vpnDetected = FALSE
    /\ behavioralScore = 0
    /\ behavioralIndicators = <<>>
    /\ locationSpoofedByBehavior = FALSE
    /\ locationSpoofedByDevTools = FALSE
    /\ locationSpoofingScore = 0
    /\ locationSpoofingIndicators = <<>>
    /\ pc = "idle"
    /\ outcome = NoOutcome
    /\ passive = [devTools |-> 0, console |-> 0, extensions |-> 0, vpn |-> 0]
    /\ increments = [devTools |-> 0, extensions |-> 0]
    /\ channelFired = FALSE
    /\ domInsertions = 0
    /\ analyses = 0

\* devtools-detector.js module variables, as the script leaves them
ModuleInit ==
    /\ globalUIController = FALSE
    /\ devToolsOpen = FALSE
    /\ probeTimers = 0

\* new LocationBehaviorAnalyzer()
AnalyzerInit ==
    /\ locationHistory = <<>>
    /\ arrivals = <<>>
    /\ watchId = NoWatch
    /\ monitoringActive = FALSE
    /\ stopTimers = 0
    /\ monitoringSince = 0
    /\ analyzerScore = 0
    /\ analyzerIndicators = <<>>
    /\ now = 0

RiskIdle ==
    /\ riskQuery = 0
    /\ riskAnswer = ""

NoScan == [done |-> FALSE]

Scanned(result) == [done |-> TRUE, result |-> result]

\* the page before any scan: console.error is the browser's function
ScanIdle ==
    /\ scans = 0
    /\ consoleError = 0
    /\ originalOf = <<>>
    /\ restoreTimers = <<>>
    /\ errorSeen = {}
    /\ lateHits = {}
    /\ extensionResult = NoScan
    /\ vpnResult = NoScan
    /\ maskingResult = NoScan
    /\ positionRequests = <<>>
    /\ runs = <<>>
    /\ rdpAssessment = NoScan

Init ==
    /\ phase = "loading"
    /\ geoSupported \in BOOLEAN
    /\ browserTimezone \in Zones
    /\ isMobile \in BOOLEAN
    /\ env \in EnvProfiles
    /\ sizeDiff \in SizeDiffs
    /\ consoleShown \in BOOLEAN
    /\ uncaught = <<>>
    /\ AggregatorInit
    /\ ModuleInit
    /\ AnalyzerInit
    /\ RiskIdle
    /\ ScanIdle

pageVars == <<geoSupported, browserTimezone, isMobile, env, consoleShown>>

analyzerVars == <<locationHistory, watchId, monitoringActive, stopTimers, monitoringSince,
                  analyzerScore, analyzerIndicators, now, arrivals>>

behaviorVars == <<behavioralScore, behavioralIndicators, locationSpoofedByBehavior>>

aggVars == <<devToolsDetected, environmentData, locationSpoofedByDevTools,
             locationSpoofingScore, locationSpoofingIndicators, increments, channelFired>>

riskVars == <<riskQuery, riskAnswer, rdpAssessment>>

consoleVars == <<consoleError, originalOf, restoreTimers, errorSeen, lateHits>>

detectorVars == <<scans, consoleVars, extensionResult, vpnResult>>

scanVars == <<detectorVars, maskingResult,
                   positionRequests, runs>>

\* A timer waits for the timers armed before it with an equal or shorter
\* delay.  The restore timer the constructor's scan arms (100 ms) therefore
\* fires before the probe timer armed after it in the same task (100 ms),
\* the module's interval (1 s) and the aggregator's interval (2 to 7 s).  The
\* stop timer of the monitoring (1 ms) is not ordered with it.
ConstructorTimerFired == \A i \in DOMAIN restoreTimers : restoreTimers[i] # 1

\* the wrappers a call of console.error passes through, starting at fn: each
\* wrapper calls the function it captured
RECURSIVE WrapperChain(_)
WrapperChain(fn) ==
    IF fn <= 0 THEN {} ELSE {fn} \cup WrapperChain(originalOf[fn])

\* One invocation of performFullExtensionDetection, as seen by console.error:
\* when the signature scan reaches its method 5 it captures console.error,
\* installs its wrapper and arms the 100 ms restore timer; the summary
\* console.error of a detecting scan ("... location spoofing extension(s)
\* detected ...") then passes through the wrappers and sets their flags.
InvokeExtensionScan(result) ==
    LET k == scans + 1
    IN /\ scans' = k
       /\ extensionResult' = Scanned(result)
       /\ lateHits' = lateHits
       /\ IF result.intercepts
          THEN /\ consoleError' = k
               /\ originalOf' = Append(originalOf, consoleError)
               /\ restoreTimers' = Append(restoreTimers, k)
               /\ errorSeen' = IF result.detected
                               THEN errorSeen \cup {k} \cup WrapperChain(consoleError)
                               ELSE errorSeen
          ELSE /\ originalOf' = Append(originalOf, -1)
               /\ errorSeen' = IF result.detected /\ ~result.threw
                               THEN errorSeen \cup WrapperChain(consoleError)
                               ELSE errorSeen
               /\ UNCHANGED <<consoleError, restoreTimers>>

\* The DOMContentLoaded handler: new UIController(), then
\* DevToolsDetector.initialize().
PageLoad ==
    /\ phase = "loading"
    /\ IF ~geoSupported \/ performFullExtensionDetection(env, geoSupported).threw
       THEN \* the constructor reads navigator.geolocation.getCurrentPosition
            \* (detectBasicArtifacts, setupAntiEvasion) or detectBasicArtifacts
            \* throws on RTCPeerConnection
            /\ phase' = "crashed"
            /\ uncaught' = Append(uncaught, "TypeError")
            /\ InvokeExtensionScan(performFullExtensionDetection(env, geoSupported))
            /\ UNCHANGED <<aggVars, extensionDetected, consoleOverridden, vpnDetected,
                           passive, globalUIController, devToolsOpen, probeTimers,
                           vpnResult>>
       ELSE LET dt == detectDevToolsInitial(env, sizeDiff, FALSE)
                co == detectConsoleOverrides(env)
                ex == performFullExtensionDetection(env, geoSupported)
                vp == performFullVPNDetection(env)
                data == [k \in {"devToolsScore", "devToolsIndicators", "devToolsDetected",
                                "consoleOverrideScore", "consoleOverrides",
                                "extensionScore", "extensionIndicators",
                                "vpnScore", "vpnIndicators", "vpnDetected"} |->
                           CASE k = "devToolsScore" -> dt.score
                             [] k = "devToolsIndicators" -> dt.indicators
                             [] k = "devToolsDetected" -> dt.detected
                             [] k = "consoleOverrideScore" -> co.score
                             [] k = "consoleOverrides" -> co.indicators
                             [] k = "extensionScore" -> ex.score
                             [] k = "extensionIndicators" -> ex.indicators
                             [] k = "vpnScore" -> vp.score
                             [] k = "vpnIndicators" -> vp.indicators
                             [] k = "vpnDetected" -> vp.detected]
                built == [Agg EXCEPT !.devToolsDetected = dt.detected,
                                     !.environmentData = data,
                                     !.channelFired = dt.detected]
                \* DevToolsDetector.initialize(): detectDevTools()
                loaded == IF isMobile THEN built
                          ELSE checkDimensionDetection(built, sizeDiff)
            IN /\ phase' = "ready"
               /\ SetAgg(loaded)
               /\ consoleOverridden' = co.overridden
               /\ extensionDetected' = ex.detected
               /\ vpnDetected' = vp.detected
               /\ passive' = [devTools |-> dt.score, console |-> co.score,
                              extensions |-> ex.score, vpn |-> vp.score]
               /\ globalUIController' = TRUE
               /\ devToolsOpen' = FALSE
               /\ probeTimers' = probeTimers + 1
               /\ InvokeExtensionScan(ex)
               /\ vpnResult' = Scanned(vp)
               /\ UNCHANGED uncaught
    /\ UNCHANGED <<pageVars, sizeDiff, locationData, deviceMaskingDetected, behaviorVars,
                   pc, outcome, analyzerVars, domInsertions, analyses, riskVars,
                   maskingResult,
                   positionRequests, runs>>

----------------------------------------------------------------------------
(* LocationBehaviorAnalyzer.  The fixes of a watch lie on one meridian     *)
(* (longitude 106.6297), `north` metres of arc from the equator: for two   *)
(* such points the haversine formula of calculateDistance gives the        *)
(* difference of the arcs, R * |toRad(lat2 - lat1)|.                       *)

\* latitude (1e-7 degree) of the point `north` metres from the equator:
\* one metre of arc is 1e7 / (6371000 * pi / 180) = 89.932 units
LatitudeOf(north) == (north \div 1000) * 89932 + ((north % 1000) * 89932) \div 1000

WatchFix(north, acc) ==
    [north |-> north, latitude |-> LatitudeOf(north), longitude |-> 1066297000,
     accuracy |-> acc]

RECURSIVE TrailingZeros(_)
TrailingZeros(v) == IF v % 10 = 0 /\ v # 0 THEN 1 + TrailingZeros(v \div 10) ELSE 0

\* x.toString().split('.')[1].length, 0 when the text has no '.'
Decimals(v) ==
    IF Abs(v) % 10000000 = 0 THEN 0 ELSE 7 - TrailingZeros(Abs(v) % 10000000)

RECURSIVE IsTenthTimesPowerOfTwo(_)
IsTenthTimesPowerOfTwo(v) ==
    IF v = 1000000 THEN TRUE
    ELSE IF v < 1000000 \/ v % 2 # 0 THEN FALSE
    ELSE IsTenthTimesPowerOfTwo(v \div 2)

\* x % 0.1 === 0 in double arithmetic: the remainder is exact, so it is zero
\* only for 0 and for the doubles 0.1 * 2^n (0.3 % 0.1 is 0.09999999999999998)
RemainderTenthIsZero(v) == v = 0 \/ IsTenthTimesPowerOfTwo(Abs(v))

calculateDistance(prev, current) == Abs(current.north - prev.north)

\* speedKmh = distance / ((t2 - t1) / 1000) * 3.6 compared with a limit, km/h
\* (distance * 3600 > limitKmh * timeDiffMs, both sides divided by 200: the
\* limits are 1000 and 200)
SpeedAbove(distance, timeDiffMs, limitKmh) ==
    distance * 18 > (limitKmh \div 200) * timeDiffMs

\* variant: the limits themselves count as exceeded
detectInstantaneousJumpsInclusive(history) ==
    LET pair(i) ==
          LET distance == calculateDistance(history[i - 1], history[i])
              timeDiffMs == history[i].timestamp - history[i - 1].timestamp
          IN IF distance * 18 >= 5 * timeDiffMs /\ distance >= 1000
             THEN << <<60, IndImpossibleSpeed>> >>
             ELSE IF distance * 18 >= timeDiffMs /\ distance >= 500
             THEN << <<40, IndSuspiciousSpeed>> >>
             ELSE <<>>
    IN FlatMap([i \in 1..(Len(history) - 1) |-> pair(i + 1)])

detectInstantaneousJumps(history) ==
    LET pair(i) ==
          LET distance == calculateDistance(history[i - 1], history[i])
              timeDiffMs == history[i].timestamp - history[i - 1].timestamp
          IN IF SpeedAbove(distance, timeDiffMs, 1000) /\ distance > 1000
             THEN << <<60, IndImpossibleSpeed>> >>
             ELSE IF SpeedAbove(distance, timeDiffMs, 200) /\ distance > 500
             THEN << <<40, IndSuspiciousSpeed>> >>
             ELSE <<>>
    IN FlatMap([i \in 1..(Len(history) - 1) |-> pair(i + 1)])

detectPerfectCoordinates(history) ==
    LET recent == SubSeq(history, IF Len(history) > 3 THEN Len(history) - 2 ELSE 1,
                         Len(history))
        one(location) ==
          (IF Decimals(location.latitude) <= 4 /\ Decimals(location.longitude) <= 4
           THEN << <<25, IndPreciseCoords>> >> ELSE <<>>)
          \o (IF RemainderTenthIsZero(location.latitude)
                 \/ RemainderTenthIsZero(location.longitude)
              THEN << <<35, IndRoundCoords>> >> ELSE <<>>)
    IN FlatMap([i \in DOMAIN recent |-> one(recent[i])])

Max(S) == CHOOSE x \in S : \A y \in S : y <= x

Min(S) == CHOOSE x \in S : \A y \in S : x <= y

detectAccuracyAnomalies(history) ==
    LET accuracies == [i \in DOMAIN history |-> history[i].accuracy]
    IN IF Len(accuracies) < 2 THEN <<>>
       ELSE LET maxAccuracy == Max(Range(accuracies))
                minAccuracy == Min(Range(accuracies))
            IN (IF maxAccuracy < 5 /\ SumSeq(accuracies) < 3 * Len(accuracies)
                THEN << <<30, IndHighAccuracyAvg>> >> ELSE <<>>)
               \o (IF maxAccuracy > 100 * minAccuracy /\ maxAccuracy > 1000
                   THEN << <<25, IndAccuracySwing>> >> ELSE <<>>)

\* variant: two fixes are enough
detectStaticAccuracyFromTwo(history) ==
    LET accuracies == [i \in DOMAIN history |-> history[i].accuracy]
    IN IF Len(accuracies) >= 2 /\ Cardinality(Range(accuracies)) = 1
       THEN << <<20, IndStaticAccuracy>> >>
            \o (IF accuracies[1] \in {10, 20, 50, 100, 150}
                THEN << <<30, IndCommonSpoofedAccuracy>> >> ELSE <<>>)
       ELSE <<>>

detectStaticAccuracy(history) ==
    LET accuracies == [i \in DOMAIN history |-> history[i].accuracy]
        uniqueAccuracies == Range(accuracies)
    IN IF Len(accuracies) < 3 THEN <<>>
       ELSE (IF Cardinality(uniqueAccuracies) = 1
             THEN << <<20, IndStaticAccuracy>> >> ELSE <<>>)
            \o (IF accuracies[1] \in {10, 20, 50, 100, 150}
                   /\ Cardinality(uniqueAccuracies) = 1
                THEN << <<30, IndCommonSpoofedAccuracy>> >> ELSE <<>>)

\* detectBehavioralAnomalies: [score, indicators] over the current history
detectBehavioralAnomalies(history) ==
    LET hits == detectInstantaneousJumps(history) \o detectPerfectCoordinates(history)
                \o detectAccuracyAnomalies(history) \o detectStaticAccuracy(history)
    IN [score |-> SumSeq([i \in DOMAIN hits |-> hits[i][1]]),
        indicators |-> [i \in DOMAIN hits |-> hits[i][2]]]

----------------------------------------------------------------------------
(* More bounds and input sets.                                             *)

MaxUpdates == 3          \* fixes a watch delivers when the analyzer is studied
MaxSessionUpdates == 2   \* fixes a watch delivers in a full session
MaxRiskScore == 130      \* scores getRiskLevel is asked about

WatchFixes ==
    {WatchFix(0, 50), WatchFix(10, 50), WatchFix(10, 12), WatchFix(510, 50),
     WatchFix(1010, 50), WatchFix(5010, 12), WatchFix(2000010, 50)}

Gaps == {5000, 18000}

SessionWatchFixes == {WatchFix(0, 50)}

SessionGaps == {5000}

GeoErrors == {"User denied Geolocation", "Position unavailable", "Timeout expired"}

----------------------------------------------------------------------------
(* Actions.                                                                *)

Ready == phase = "ready"

\* LocationBehaviorAnalyzer.startLocationMonitoring with the id the browser
\* returns from watchPosition
\* The stop timer it arms at clock value monitoringSince is due StopDelay
\* ms later.
startLocationMonitoring(id) ==
    IF monitoringActive
    THEN UNCHANGED <<monitoringActive, watchId, stopTimers, monitoringSince>>
    ELSE /\ monitoringActive' = TRUE
         /\ watchId' = Watch(id)
         /\ stopTimers' = stopTimers + 1
         /\ monitoringSince' = now

\* UIController.handleLocateClick up to the first await that yields:
\* startLocationMonitoring, then performFullAnalysis runs detectRemoteDesktop
\* and enters DeviceDataMaskingDetector.runChecks.
LocateClick(ids, limit) ==
    /\ Ready /\ pc = "idle" /\ analyses < limit
    /\ \E id \in ids : startLocationMonitoring(id)
    /\ environmentData' = detectRemoteDesktop(env)
    /\ pc' = "masking"
    /\ outcome' = NoOutcome
    /\ analyses' = analyses + 1
    /\ positionRequests' = <<>>
    /\ UNCHANGED <<phase, pageVars, sizeDiff, uncaught, locationData, devToolsDetected,
                   extensionDetected, consoleOverridden, deviceMaskingDetected, vpnDetected,
                   behaviorVars, locationSpoofedByDevTools, locationSpoofingScore,
                   locationSpoofingIndicators, globalUIController, devToolsOpen, probeTimers,
                   locationHistory, arrivals, analyzerScore, analyzerIndicators, now,
                   passive, increments, channelFired, domInsertions, riskVars,
                   detectorVars, maskingResult, runs>>

\* analyzeLocation: the options passed to getCurrentPosition
PositionOptions == [enableHighAccuracy |-> TRUE, timeout |-> 10000, maximumAge |-> 0]

\* variant: runChecks keeps the score and the indicators of the run before
MaskingDoneWithoutReset ==
    /\ Ready /\ pc = "masking"
    /\ LET fresh == runChecks(env, browserTimezone)
           carried == maskingResult.done /\ ~maskingResult.result.threw /\ ~fresh.threw
           result == IF carried
                     THEN [fresh EXCEPT !.score = maskingResult.result.score + @,
                                        !.indicators = maskingResult.result.indicators \o @]
                     ELSE fresh
       IN /\ maskingResult' = Scanned(result)
          /\ IF result.threw
             THEN /\ outcome' = Failure("Analysis failed: " \o result.message)
                  /\ pc' = "idle"
                  /\ UNCHANGED <<deviceMaskingDetected, environmentData, positionRequests>>
             ELSE /\ deviceMaskingDetected' = result.isMasked
                  /\ environmentData' =
                        Put(Put(environmentData, "maskingScore", result.score),
                            "maskingIndicators", result.indicators)
                  /\ pc' = "locating"
                  /\ positionRequests' = Append(positionRequests, PositionOptions)
                  /\ UNCHANGED outcome
    /\ UNCHANGED <<phase, pageVars, sizeDiff, uncaught, locationData, devToolsDetected,
                   extensionDetected, consoleOverridden, vpnDetected,
                   behaviorVars, locationSpoofedByDevTools, locationSpoofingScore,
                   locationSpoofingIndicators, globalUIController, devToolsOpen,
                   probeTimers, analyzerVars, passive, increments, channelFired,
                   domInsertions, analyses, riskVars, detectorVars, runs>>

\* runChecks settles.  Resolved: detectDeviceDataMasking stores the result
\* and analyzeLocation asks for the position.  Rejected: the catch block of
\* performFullAnalysis wraps the error and the analysis ends.
MaskingDone ==
    /\ Ready /\ pc = "masking"
    /\ LET result == runChecks(env, browserTimezone)
       IN /\ maskingResult' = Scanned(result)
          /\ IF result.threw
             THEN /\ outcome' = Failure("Analysis failed: " \o result.message)
                  /\ pc' = "idle"
                  /\ UNCHANGED <<deviceMaskingDetected, environmentData, positionRequests>>
             ELSE /\ deviceMaskingDetected' = result.isMasked
                  /\ environmentData' =
                        Put(Put(environmentData, "maskingScore", result.score),
                            "maskingIndicators", result.indicators)
                  /\ pc' = "locating"
                  /\ positionRequests' = Append(positionRequests, PositionOptions)
                  /\ UNCHANGED outcome
    /\ UNCHANGED <<phase, pageVars, sizeDiff, uncaught, locationData, devToolsDetected,
                   extensionDetected, consoleOverridden, vpnDetected,
                   behaviorVars, locationSpoofedByDevTools, locationSpoofingScore,
                   locationSpoofingIndicators, globalUIController, devToolsOpen,
                   probeTimers, analyzerVars, passive, increments, channelFired,
                   domInsertions, analyses, riskVars, detectorVars, runs>>

\* the fields of the aggregator detectLocationSpoofing reads
SpoofingInputs ==
    [locationSpoofedByDevTools |-> locationSpoofedByDevTools,
     locationSpoofingScore |-> locationSpoofingScore,
     locationSpoofingIndicators |-> locationSpoofingIndicators,
     behavioralScore |-> behavioralScore,
     behavioralIndicators |-> behavioralIndicators,
     locationSpoofedByBehavior |-> locationSpoofedByBehavior]

\* The success callback of getCurrentPosition and the rest of
\* performFullAnalysis, which runs without yielding to another task.
PositionSuccess(fix) ==
    /\ Ready /\ pc = "locating"
    /\ locationData' = fix
    /\ LET locationAnalysis == detectLocationSpoofing(fix, browserTimezone, SpoofingInputs)
           flags == [consoleOverridden |-> consoleOverridden,
                     extensionDetected |-> extensionDetected,
                     deviceMaskingDetected |-> deviceMaskingDetected,
                     vpnDetected |-> vpnDetected]
           report == BuildReport(fix, locationAnalysis, environmentData, flags)
       IN /\ outcome' = [kind |-> "report", message |-> "", report |-> report]
          /\ runs' = Append(runs, [fix |-> fix, report |-> report])
    /\ pc' = "idle"
    /\ UNCHANGED <<phase, pageVars, sizeDiff, uncaught, aggVars, extensionDetected,
                   consoleOverridden, deviceMaskingDetected, vpnDetected, behaviorVars,
                   globalUIController, devToolsOpen, probeTimers, analyzerVars, passive,
                   domInsertions, analyses, riskVars, detectorVars, maskingResult,
                   positionRequests>>

\* The error callback of getCurrentPosition: the catch block wraps the error.
PositionError(message) ==
    /\ Ready /\ pc = "locating"
    /\ outcome' = Failure("Analysis failed: " \o message)
    /\ pc' = "idle"
    /\ UNCHANGED <<phase, pageVars, sizeDiff, uncaught, locationData, aggVars,
                   extensionDetected, consoleOverridden, deviceMaskingDetected, vpnDetected,
                   behaviorVars, globalUIController, devToolsOpen, probeTimers, analyzerVars,
                   passive, domInsertions, analyses, riskVars, scanVars>>

\* what the DevTools channels leave alone
ChannelFrame ==
    UNCHANGED <<phase, pageVars, uncaught, locationData, extensionDetected,
                consoleOverridden, deviceMaskingDetected, vpnDetected, behaviorVars,
                pc, outcome, globalUIController, analyzerVars, passive, domInsertions,
                analyses, riskVars, scanVars>>

\* the aggregator's setInterval: detectDevToolsRuntime
RuntimePoll ==
    /\ Ready /\ ConstructorTimerFired
    /\ SetAgg(detectDevToolsRuntime(Agg, sizeDiff))
    /\ UNCHANGED <<sizeDiff, devToolsOpen, probeTimers>>
    /\ ChannelFrame

\* the module's setInterval: checkConsoleDetection(); checkDimensionDetection()
ModulePoll ==
    /\ Ready /\ ConstructorTimerFired /\ probeTimers < MaxProbeTimers
    /\ devToolsOpen' = FALSE
    /\ probeTimers' = probeTimers + 1
    /\ SetAgg(checkDimensionDetection(Agg, sizeDiff))
    /\ UNCHANGED sizeDiff
    /\ ChannelFrame

\* a console that is showing renders the logged element and reads its id
ConsoleGetter ==
    /\ Ready /\ consoleShown /\ ~devToolsOpen
    /\ devToolsOpen' = TRUE
    /\ UNCHANGED <<sizeDiff, probeTimers, aggVars>>
    /\ ChannelFrame

\* the 100 ms timer of checkConsoleDetection
ProbeTimeout ==
    /\ Ready /\ ConstructorTimerFired /\ probeTimers > 0
    /\ probeTimers' = probeTimers - 1
    /\ SetAgg(IF devToolsOpen THEN handleDevToolsDetected(Agg) ELSE Agg)
    /\ UNCHANGED <<sizeDiff, devToolsOpen>>
    /\ ChannelFrame

\* the window is resized (a panel is docked or undocked): the resize listener
\* runs checkDimensionDetection
Resize(diff) ==
    /\ Ready /\ diff # sizeDiff
    /\ sizeDiff' = diff
    /\ SetAgg(checkDimensionDetection(Agg, diff))
    /\ UNCHANGED <<devToolsOpen, probeTimers>>
    /\ ChannelFrame

\* the keydown listener sees F12 or one of the shortcuts
KeyDown ==
    /\ Ready
    /\ SetAgg(handleDevToolsDetected(Agg))
    /\ UNCHANGED <<sizeDiff, devToolsOpen, probeTimers>>
    /\ ChannelFrame

\* the MutationObserver sees an inserted element carrying one marker
\* attribute: checkForExtensionArtifacts
DomInsert ==
    /\ Ready /\ domInsertions < MaxDomInsertions
    /\ domInsertions' = domInsertions + 1
    /\ extensionDetected' = TRUE
    /\ environmentData' = AddScore(environmentData, "extensionScore", "extensionIndicators",
                                   20, "Extension artifact detected: ..")
    /\ increments' = [increments EXCEPT !.extensions = @ + 20]
    /\ UNCHANGED <<phase, pageVars, sizeDiff, uncaught, locationData, devToolsDetected,
                   consoleOverridden, deviceMaskingDetected, vpnDetected, behaviorVars,
                   locationSpoofedByDevTools, locationSpoofingScore,
                   locationSpoofingIndicators, pc, outcome, globalUIController,
                   devToolsOpen, probeTimers, analyzerVars, passive, channelFired,
                   analyses, riskVars, scanVars>>

\* what the analyzer leaves alone
WatchFrame ==
    UNCHANGED <<phase, pageVars, sizeDiff, uncaught, locationData, aggVars,
                extensionDetected, consoleOverridden, deviceMaskingDetected, vpnDetected,
                pc, outcome, globalUIController, devToolsOpen, probeTimers, passive,
                domInsertions, analyses, riskVars, scanVars>>

\* setTimeout(() => this.stopLocationMonitoring(), 1)
StopDelay == 1

\* the timer of startLocationMonitoring: stopLocationMonitoring.  A timer
\* fires no earlier than it is due, so the clock is at least at the due time.
StopTimer ==
    /\ Ready /\ stopTimers > 0
    /\ stopTimers' = stopTimers - 1
    /\ now' = IF now < monitoringSince + StopDelay THEN monitoringSince + StopDelay ELSE now
    /\ IF Truthy(watchId)
       THEN watchId' = NoWatch /\ monitoringActive' = FALSE
       ELSE UNCHANGED <<watchId, monitoringActive>>
    /\ UNCHANGED <<locationHistory, arrivals, analyzerScore, analyzerIndicators,
                   monitoringSince, behaviorVars>>
    /\ WatchFrame

\* variant: the flag follows the score of the latest window
MarkedByBehaviorLatestWindow(flag, score) == score >= 50

\* detectBehavioralAnomalies: if (score >= 50) locationSpoofedByBehavior = true
MarkedByBehavior(flag, score) == flag \/ score >= 50

\* the watch delivers a fix `gap` ms after the previous one: analyzeLocationUpdate
\* variant: a full history drops the fix that has just arrived
KeepFirstTen(pushed) ==
    IF Len(pushed) > 10 THEN SubSeq(pushed, 1, 10) ELSE pushed

\* if (this.locationHistory.length > 10) this.locationHistory.shift()
KeepLastTen(pushed) ==
    IF Len(pushed) > 10 THEN Tail(pushed) ELSE pushed

WatchUpdate(fix, gap, limit) ==
    /\ Ready /\ watchId.present /\ Len(locationHistory) < limit
    /\ now' = now + gap
    /\ LET locationPoint == [north |-> fix.north, latitude |-> fix.latitude,
                             longitude |-> fix.longitude, accuracy |-> fix.accuracy,
                             timestamp |-> now']
           pushed == Append(locationHistory, locationPoint)
           history == KeepLastTen(pushed)
           found == detectBehavioralAnomalies(history)
       IN /\ locationHistory' = history
          /\ arrivals' = Append(arrivals, locationPoint)
          /\ IF Len(history) >= 2
             THEN /\ analyzerScore' = found.score
                  /\ analyzerIndicators' = found.indicators
                  /\ IF found.score > 0
                     THEN /\ behavioralScore' = found.score
                          /\ behavioralIndicators' = found.indicators
                          /\ locationSpoofedByBehavior' =
                                 MarkedByBehavior(locationSpoofedByBehavior, found.score)
                     ELSE UNCHANGED behaviorVars
             ELSE UNCHANGED <<analyzerScore, analyzerIndicators, behaviorVars>>
    /\ UNCHANGED <<watchId, monitoringActive, stopTimers, monitoringSince>>
    /\ WatchFrame

\* variant: the timer's 20 points reach the result the scan returned
RestoreTimerUpdatesResult ==
    /\ restoreTimers # <<>>
    /\ LET k == Head(restoreTimers)
       IN /\ consoleError' = originalOf[k]
          /\ restoreTimers' = Tail(restoreTimers)
          /\ lateHits' = IF k \in errorSeen THEN lateHits \cup {k} ELSE lateHits
          /\ extensionResult' =
                IF k \in errorSeen /\ extensionResult.done
                THEN Scanned([extensionResult.result EXCEPT !.score = @ + 20,
                                                           !.detected = TRUE])
                ELSE extensionResult
    /\ UNCHANGED <<phase, pageVars, sizeDiff, uncaught, locationData, aggVars,
                   extensionDetected, consoleOverridden, deviceMaskingDetected, vpnDetected,
                   behaviorVars, pc, outcome, globalUIController, devToolsOpen, probeTimers,
                   analyzerVars, passive, domInsertions, analyses, riskVars,
                   scans, originalOf, errorSeen, vpnResult, maskingResult,
                   positionRequests, runs>>

\* the 100 ms timer of method 5: console.error = originalConsoleError, and the
\* 20 points go to the locals of a call that has already returned
RestoreTimer ==
    /\ restoreTimers # <<>>
    /\ LET k == Head(restoreTimers)
       IN /\ consoleError' = originalOf[k]
          /\ restoreTimers' = Tail(restoreTimers)
          /\ lateHits' = IF k \in errorSeen THEN lateHits \cup {k} ELSE lateHits
    /\ UNCHANGED <<phase, pageVars, sizeDiff, uncaught, locationData, aggVars,
                   extensionDetected, consoleOverridden, deviceMaskingDetected, vpnDetected,
                   behaviorVars, pc, outcome, globalUIController, devToolsOpen, probeTimers,
                   analyzerVars, passive, domInsertions, analyses, riskVars,
                   scans, originalOf, errorSeen, extensionResult, vpnResult, maskingResult,
                   positionRequests, runs>>

Next ==
    \/ PageLoad
    \/ LocateClick(SessionWatchIds, MaxAnalyses)
    \/ MaskingDone
    \/ \E fix \in Fixes : PositionSuccess(fix)
    \/ \E message \in GeoErrors : PositionError(message)
    \/ RuntimePoll
    \/ ModulePoll
    \/ ConsoleGetter
    \/ ProbeTimeout
    \/ \E diff \in SizeDiffs : Resize(diff)
    \/ KeyDown
    \/ DomInsert
    \/ StopTimer
    \/ \E fix \in SessionWatchFixes, gap \in SessionGaps :
           WatchUpdate(fix, gap, MaxSessionUpdates)
    \/ RestoreTimer

Spec == Init /\ [][Next]_vars

----------------------------------------------------------------------------
(* getRiskLevel on its own: a session of one desktop in which, besides the *)
(* analysis, the function is asked about a score drawn at the start.       *)

InitRisk ==
    /\ phase = "loading"
    /\ geoSupported = TRUE
    /\ browserTimezone = "Asia/Saigon"
    /\ isMobile = FALSE
    /\ env \in EnvProfiles
    /\ sizeDiff = 0
    /\ consoleShown = FALSE
    /\ uncaught = <<>>
    /\ AggregatorInit
    /\ ModuleInit
    /\ AnalyzerInit
    /\ riskQuery \in 0..MaxRiskScore
    /\ riskAnswer = ""
    /\ ScanIdle

GetRiskLevel ==
    /\ riskAnswer = ""
    /\ riskAnswer' = getRiskLevel(riskQuery)
    /\ UNCHANGED <<phase, pageVars, sizeDiff, uncaught, locationData, aggVars,
                   extensionDetected, consoleOverridden, deviceMaskingDetected, vpnDetected,
                   behaviorVars, pc, outcome, globalUIController, devToolsOpen, probeTimers,
                   analyzerVars, passive, domInsertions, analyses, riskQuery,
                   rdpAssessment, scanVars>>

NextRisk ==
    \/ GetRiskLevel
    \/ PageLoad
    \/ LocateClick(SessionWatchIds, MaxAnalyses)
    \/ MaskingDone
    \/ \E fix \in Fixes : PositionSuccess(fix)
    \/ \E message \in GeoErrors : PositionError(message)
    \/ RestoreTimer

SpecRisk == InitRisk /\ [][NextRisk]_vars

----------------------------------------------------------------------------
(* The LocationBehaviorAnalyzer on its own: one desktop session in which   *)
(* the watch delivers fixes while the analysis is waiting.                 *)

InitBehavior ==
    /\ phase = "loading"
    /\ geoSupported = TRUE
    /\ browserTimezone = "Asia/Saigon"
    /\ isMobile = FALSE
    /\ env = CleanDesktop
    /\ sizeDiff = 0
    /\ consoleShown = FALSE
    /\ uncaught = <<>>
    /\ AggregatorInit
    /\ ModuleInit
    /\ AnalyzerInit
    /\ RiskIdle
    /\ ScanIdle

NextBehavior ==
    \/ PageLoad
    \/ LocateClick(WatchIds, MaxAnalyses)
    \/ StopTimer
    \/ \E fix \in WatchFixes, gap \in Gaps : WatchUpdate(fix, gap, MaxUpdates)
    \/ RestoreTimer

SpecBehavior == InitBehavior /\ [][NextBehavior]_vars

\* The same with the event loop's guarantee: the load event is delivered and
\* a timer that has been armed fires.  Nothing obliges the user to click or
\* the platform to deliver fixes.
SpecBehaviorFair ==
    SpecBehavior /\ WF_vars(PageLoad) /\ WF_vars(StopTimer) /\ WF_vars(RestoreTimer)

----------------------------------------------------------------------------
(* The DevTools monitors in a session of one ordinary desktop or mobile    *)
(* browser: the intervals, the probe, the listeners and one analysis.      *)

InitMonitors ==
    /\ phase = "loading"
    /\ geoSupported = TRUE
    /\ browserTimezone = "Asia/Saigon"
    /\ isMobile \in BOOLEAN
    /\ env = CleanDesktop
    /\ sizeDiff \in SizeDiffs
    /\ consoleShown \in BOOLEAN
    /\ uncaught = <<>>
    /\ AggregatorInit
    /\ ModuleInit
    /\ AnalyzerInit
    /\ RiskIdle
    /\ ScanIdle

NextMonitors ==
    \/ PageLoad
    \/ RuntimePoll
    \/ ModulePoll
    \/ ConsoleGetter
    \/ ProbeTimeout
    \/ \E diff \in SizeDiffs : Resize(diff)
    \/ KeyDown
    \/ RestoreTimer
    \/ LocateClick(SessionWatchIds, MaxAnalyses)
    \/ MaskingDone
    \/ PositionSuccess(HoChiMinh)
    \/ StopTimer

SpecMonitors == InitMonitors /\ [][NextMonitors]_vars

\* The same with the event loop's guarantee: the load event is delivered, an
\* armed timer fires, and an interval that was never cleared keeps firing.
SpecMonitorsFair ==
    /\ SpecMonitors
    /\ WF_vars(PageLoad) /\ WF_vars(RestoreTimer) /\ WF_vars(StopTimer)
    /\ WF_vars(RuntimePoll) /\ WF_vars(ModulePoll) /\ WF_vars(ProbeTimeout)

----------------------------------------------------------------------------
(* The behavioural flag in a session: the watch delivers fixes whose       *)
(* window first scores 50 or more and later less, and one analysis is run. *)

\* a fix about 1.1 km north of the origin: latitude 0.01 has two decimals,
\* longitude 106.6297 four
PreciseFix == [north |-> 1112, latitude |-> 100000, longitude |-> 1066297000, accuracy |-> 2]

LatchFixes == {PreciseFix, WatchFix(1122, 2), WatchFix(1132, 50), WatchFix(0, 50)}

NextLatch ==
    \/ PageLoad
    \/ LocateClick(SessionWatchIds, MaxAnalyses)
    \/ MaskingDone
    \/ PositionSuccess(HoChiMinh)
    \/ StopTimer
    \/ \E fix \in LatchFixes, gap \in SessionGaps : WatchUpdate(fix, gap, MaxUpdates)
    \/ RestoreTimer

SpecLatch == InitBehavior /\ [][NextLatch]_vars

\* A watch whose window first scores and later does not: one fix with few
\* decimals, then fixes with many decimals and varying accuracy.
MaxDecayUpdates == 4

DecayFixes == {PreciseFix, WatchFix(1122, 12), WatchFix(1132, 50)}

NextDecay ==
    \/ PageLoad
    \/ LocateClick(SessionWatchIds, MaxAnalyses)
    \/ StopTimer
    \/ \E fix \in DecayFixes, gap \in SessionGaps : WatchUpdate(fix, gap, MaxDecayUpdates)
    \/ RestoreTimer

SpecDecay == InitBehavior /\ [][NextDecay]_vars

\* A long watch: the platform keeps delivering fixes (the stop timer may or
\* may not clear the watch, and a watch whose id is 0 is never cleared).
MaxArrivals == 11

WindowFixes == {WatchFix(0, 50), WatchFix(10, 50)}

NextWindow ==
    \/ PageLoad
    \/ LocateClick(WatchIds, MaxAnalyses)
    \/ StopTimer
    \/ \E fix \in WindowFixes, gap \in SessionGaps :
          Len(arrivals) < MaxArrivals /\ WatchUpdate(fix, gap, MaxArrivals)
    \/ RestoreTimer

SpecWindow == InitBehavior /\ [][NextWindow]_vars

----------------------------------------------------------------------------
(* The detector modules on their own: the page is loaded in a browser whose *)
(* probe targets are drawn from ScanProfiles; the exported detectors may    *)
(* be invoked again, an extension may log an error, and the restore timers  *)
(* fire in the order they were armed.                                       *)

MaxScans == 3        \* invocations of performFullExtensionDetection

\* window.ExtensionDetector / window.VPNDetector used once more by the page
ScanAgain ==
    /\ phase = "ready"
    /\ scans < MaxScans
    /\ InvokeExtensionScan(performFullExtensionDetection(env, geoSupported))
    /\ vpnResult' = Scanned(performFullVPNDetection(env))
    /\ UNCHANGED <<phase, pageVars, sizeDiff, uncaught, locationData, aggVars,
                   extensionDetected, consoleOverridden, deviceMaskingDetected, vpnDetected,
                   behaviorVars, pc, outcome, globalUIController, devToolsOpen, probeTimers,
                   analyzerVars, passive, domInsertions, analyses, riskVars,
                   maskingResult,
                   positionRequests, runs>>

\* an extension logs console.error("Extension ... geolocation ...") while a
\* wrapper whose flag is still clear is installed
LogExtensionError ==
    /\ phase = "ready"
    /\ WrapperChain(consoleError) \ errorSeen # {}
    /\ errorSeen' = errorSeen \cup WrapperChain(consoleError)
    /\ UNCHANGED <<phase, pageVars, sizeDiff, uncaught, locationData, aggVars,
                   extensionDetected, consoleOverridden, deviceMaskingDetected, vpnDetected,
                   behaviorVars, pc, outcome, globalUIController, devToolsOpen, probeTimers,
                   analyzerVars, passive, domInsertions, analyses, riskVars,
                   scans, consoleError, originalOf, restoreTimers, lateHits,
                   extensionResult, vpnResult, maskingResult,
                   positionRequests, runs>>

\* the probe targets of a browser: every combination on an ordinary desktop
ScanProfiles ==
    {[CleanDesktop EXCEPT !.name = "scan", !.vytal = v, !.webrtcPatched = w,
                          !.webrtcBroken = wb, !.xhrBroken = xb, !.cssVar = c,
                          !.vpnGlobal = g, !.connectionOther = o] :
        v \in BOOLEAN, w \in BOOLEAN, wb \in BOOLEAN, xb \in BOOLEAN,
        c \in BOOLEAN, g \in BOOLEAN, o \in BOOLEAN}

\* what the device-masking checks may meet on an ordinary desktop
MaskingProfiles ==
    {[CleanDesktop EXCEPT !.name = "masking", !.canvas = c, !.webgl = w,
                          !.audio = a, !.media = m] :
        c \in {"ok", "blocked", "no-context", "digest-rejects"},
        w \in {"ok", "webgl-error", "no-debug-info"},
        a \in {"ok", "error"}, m \in {"ok", "error"}}

InitScan ==
    /\ phase = "loading"
    /\ geoSupported \in BOOLEAN
    /\ browserTimezone = "Asia/Saigon"
    /\ isMobile = FALSE
    /\ env \in ScanProfiles \cup MaskingProfiles
    /\ sizeDiff = 0
    /\ consoleShown = FALSE
    /\ uncaught = <<>>
    /\ AggregatorInit
    /\ ModuleInit
    /\ AnalyzerInit
    /\ RiskIdle
    /\ ScanIdle

NextScan ==
    \/ PageLoad
    \/ ScanAgain
    \/ LogExtensionError
    \/ RestoreTimer
    \/ LocateClick(SessionWatchIds, MaxAnalyses)
    \/ MaskingDone
    \/ PositionSuccess(HoChiMinh)
    \/ \E message \in GeoErrors : PositionError(message)
    \/ StopTimer

SpecScan == InitScan /\ [][NextScan]_vars

\* Two analyses in a row with no monitor event: the page is loaded, "Locate
\* Me" is clicked, the analysis returns, and the button is clicked again.
\* Only the timers armed by the load and by the click fire.
MaxRuns == 2

RunFixes == {HoChiMinh, GoogleHQ150, RoundedCoarse}

InitRuns ==
    /\ phase = "loading"
    /\ geoSupported = TRUE
    /\ browserTimezone = "Asia/Saigon"
    /\ isMobile = FALSE
    /\ env \in EnvProfiles \cup MaskingProfiles
    /\ sizeDiff \in SizeDiffs
    /\ consoleShown = FALSE
    /\ uncaught = <<>>
    /\ AggregatorInit
    /\ ModuleInit
    /\ AnalyzerInit
    /\ RiskIdle
    /\ ScanIdle

NextRuns ==
    \/ PageLoad
    \/ LocateClick(SessionWatchIds, MaxRuns)
    \/ MaskingDone
    \/ \E fix \in RunFixes : PositionSuccess(fix)
    \/ \E message \in GeoErrors : PositionError(message)
    \/ RestoreTimer
    \/ StopTimer

SpecRuns == InitRuns /\ [][NextRuns]_vars

----------------------------------------------------------------------------
(* The RDP/VM checks on their own: a page of one profile on which the      *)
(* three checks are run and combined once.                                  *)

\* screens, renderers, user agents and core counts the three checks may meet
RdpProfiles ==
    {[CleanDesktop EXCEPT !.name = "rdp", !.width = size[1], !.height = size[2],
                          !.colorDepth = depth, !.pixelRatio = ratio, !.webgl = w,
                          !.uaVirtual = ua, !.cores = c] :
        size \in { <<1920, 1080>>, <<800, 600>>, <<1000, 1000>> },
        depth \in {24, 16}, ratio \in {100, 75},
        w \in {"ok", "llvmpipe", "webgl-error", "no-debug-info"},
        ua \in BOOLEAN, c \in {0, 1, 8}}

InitRdp ==
    /\ phase = "loading"
    /\ geoSupported = TRUE
    /\ browserTimezone = "Asia/Saigon"
    /\ isMobile = FALSE
    /\ env \in RdpProfiles
    /\ sizeDiff = 0
    /\ consoleShown = FALSE
    /\ uncaught = <<>>
    /\ AggregatorInit
    /\ ModuleInit
    /\ AnalyzerInit
    /\ riskQuery = 0
    /\ riskAnswer = ""
    /\ ScanIdle

\* the three checks and getOverallRDPSuspicion on their results
AssessRemoteDesktop ==
    /\ Ready /\ ~rdpAssessment.done
    /\ LET screenResult == checkScreenProperties(env)
           webglResult == checkWebGLRenderer(env)
           navigatorResult == checkNavigatorProperties(env)
       IN rdpAssessment' =
            Scanned([screen |-> screenResult, webgl |-> webglResult,
                     navigator |-> navigatorResult,
                     overall |-> getOverallRDPSuspicion(screenResult, webglResult,
                                                        navigatorResult)])
    /\ UNCHANGED <<phase, pageVars, sizeDiff, uncaught, locationData, aggVars,
                   extensionDetected, consoleOverridden, deviceMaskingDetected, vpnDetected,
                   behaviorVars, pc, outcome, globalUIController, devToolsOpen, probeTimers,
                   analyzerVars, passive, domInsertions, analyses, riskQuery, riskAnswer,
                   scanVars>>

NextRdp ==
    \/ PageLoad
    \/ AssessRemoteDesktop
    \/ RestoreTimer

SpecRdp == InitRdp /\ [][NextRdp]_vars

----------------------------------------------------------------------------
(* Properties.                                                             *)

HasReport == outcome.kind = "report"

Has(seq, x) == \E i \in DOMAIN seq : seq[i] = x

Count(seq, x) == Cardinality({i \in DOMAIN seq : seq[i] = x})

\* C1: whenever performFullAnalysis returns a report, overall.suspicionScore
\* is rdpScore + location spoofingScore + device-masking score + the devTools,
\* console-override, extension and VPN scores, the last four being what the
\* passive checks computed at construction plus what the background monitors
\* have added since.
C1_ScoreSumsEveryComponent ==
    [][(pc = "locating" /\ outcome'.kind = "report") =>
          LET r == outcome'.report
          IN r.overall.suspicionScore =
                 r.environment.rdpScore + r.location.spoofingScore
                 + (passive'.devTools + increments'.devTools)
                 + passive'.console
                 + (passive'.extensions + increments'.extensions)
                 + r.deviceMasking.score
                 + passive'.vpn]_vars

DefaultLocationTags == {IndDefaultLocation(devToolsDefaults[i].name) : i \in DOMAIN devToolsDefaults}

EmulatorTags == {IndEmulator(emulatorCoords[i].name) : i \in DOMAIN emulatorCoords}

CriticalTags ==
    {IndAccuracy150, IndTimezone, IndCriticalDevTools} \cup DefaultLocationTags \cup EmulatorTags

\* C2: a location result with spoofingScore >= 20, or carrying any critical
\* override tag (DevTools default coordinates, accuracy exactly 150, timezone
\* mismatch, null-island or emulator coordinates, live DevTools detection), is
\* classified spoofed; a fix of accuracy exactly 150 carries the accuracy
\* signature, at least its 50 points, and is classified spoofed.
C2_OverrideForcesSpoofed ==
    HasReport =>
        LET l == outcome.report.location
        IN /\ (l.spoofingScore >= 20 \/ \E i \in DOMAIN l.indicators : l.indicators[i] \in CriticalTags)
                 => l.isSpoofed
           /\ l.accuracy = 150
                 => Has(l.indicators, IndAccuracy150) /\ l.spoofingScore >= 50 /\ l.isSpoofed

C2_Accuracy150Spoofed ==
    /\ HasReport
    /\ outcome.report.location.accuracy = 150
    /\ outcome.report.location.spoofingScore = 50
    /\ outcome.report.location.indicators = <<IndAccuracy150>>
    /\ outcome.report.location.isSpoofed

\* C3: once any DevTools channel has fired, the devtools-detected flag is set
\* and the location is marked spoofed (locationSpoofedByDevTools, a penalty of
\* 100, the dedicated indicator), so that detectLocationSpoofing answers
\* spoofed for every fix from then on.
C3_ChannelMarksLocationSpoofed ==
    channelFired =>
        /\ devToolsDetected
        /\ locationSpoofedByDevTools
        /\ locationSpoofingScore >= 100
        /\ Has(locationSpoofingIndicators, IndCriticalDevTools)
        /\ \A fix \in Fixes :
               detectLocationSpoofing(fix, browserTimezone, SpoofingInputs).isLocationSpoofed

\* the four bands, written out
Band(score) ==
    CASE score < 20 -> "LOW"
      [] score >= 20 /\ score <= 39 -> "MEDIUM"
      [] score >= 40 /\ score <= 59 -> "HIGH"
      [] score >= 60 -> "CRITICAL"

\* C4: getRiskLevel answers LOW below 20, MEDIUM from 20 to 39, HIGH from 40
\* to 59 and CRITICAL from 60 on, and the riskLevel of a report is the band of
\* that report's suspicionScore.
C4_RiskBands ==
    /\ riskAnswer # "" => riskAnswer = Band(riskQuery)
    /\ HasReport =>
          outcome.report.overall.riskLevel = Band(outcome.report.overall.suspicionScore)

C4_BandEdgeAsked ==
    /\ riskQuery = 39
    /\ riskAnswer = "MEDIUM"
    /\ HasReport
    /\ outcome.report.overall.suspicionScore = 20
    /\ outcome.report.overall.riskLevel = "MEDIUM"

WrappedFailures ==
    {"Analysis failed: " \o message : message \in GeoErrors \cup {"Geolocation not supported"}}

\* C5: a fix that cannot be obtained (no geolocation API, permission denied,
\* position unavailable, timeout) shows as one wrapped 'Analysis failed' error
\* of performFullAnalysis and no report: no other error reaches the page, and
\* a failed analysis carries a wrapped message and nothing else.
C5_FailureIsWrapped ==
    /\ uncaught = <<>>
    /\ outcome.kind = "error" => outcome.message \in WrappedFailures /\ ~outcome.report.present

\* C6: the report carries the 'Timezone mismatch' indicator exactly when the
\* browser zone's offset and round(longitude / 15) differ by more than one
\* hour, and then the location is classified spoofed.
C6_TimezoneMismatchFlagged ==
    HasReport =>
        LET l == outcome.report.location
        IN /\ Has(l.indicators, IndTimezone)
                 <=> checkTimezoneMatch(browserTimezone, l.latitude, l.longitude)
           /\ Has(l.indicators, IndTimezone) => l.isSpoofed

IsGoogleHQ150(l) ==
    l.latitude = 374224764 /\ l.longitude = -1220842499 /\ l.accuracy = 150

\* C7: the report of a session in America/Los_Angeles whose fix is
\* (37.4224764, -122.0842499) with accuracy 150 lists the accuracy signature
\* and a DevTools default-location match, says the location is spoofed, and
\* has riskLevel HIGH or CRITICAL.
C7_GoogleHQScenario ==
    (HasReport /\ browserTimezone = "America/Los_Angeles"
     /\ IsGoogleHQ150(outcome.report.location)) =>
        LET r == outcome.report
        IN /\ Has(r.location.indicators, IndAccuracy150)
           /\ \E i \in DOMAIN r.location.indicators : r.location.indicators[i] \in DefaultLocationTags
           /\ r.location.isSpoofed
           /\ r.overall.riskLevel \in {"HIGH", "CRITICAL"}

C7_GoogleHQReported ==
    /\ HasReport
    /\ browserTimezone = "America/Los_Angeles"
    /\ IsGoogleHQ150(outcome.report.location)
    /\ Has(outcome.report.location.indicators, IndDefaultLocation("Google HQ (DevTools default)"))
    /\ outcome.report.overall.riskLevel = "CRITICAL"

\* a session without DevTools, extension or VPN signals, whose one fix is
\* clean, of accuracy 15, and in a zone within one hour of its longitude
CleanSession ==
    /\ HasReport
    /\ ~channelFired /\ ~devToolsDetected /\ ~env.toStringPatched
    /\ ~extensionDetected /\ passive.extensions = 0 /\ increments.extensions = 0
    /\ ~vpnDetected /\ passive.vpn = 0
    /\ Len(locationHistory) < 2
    /\ locationData.accuracy = 15
    /\ locationData.responseTime >= 100
    /\ ~FractionBelowThousandth(locationData.latitude)
    /\ ~FractionBelowThousandth(locationData.longitude)
    /\ ~isSuspiciousLocation(locationData.latitude, locationData.longitude)
    /\ detectLocationSignatures(locationData).signatureScore = 0
    /\ ~checkTimezoneMatch(browserTimezone, locationData.latitude, locationData.longitude)

Pairs(P(_, _)) ==
    {i \in 2..Len(locationHistory) :
        P(Abs(locationHistory[i].north - locationHistory[i - 1].north),
          locationHistory[i].timestamp - locationHistory[i - 1].timestamp)}

\* distance in metres, time in ms: 1000 km/h is 5 m in 18 ms, 200 km/h 1 m in 18 ms
AtLeast1000Kmh(distance, ms) == distance * 18 >= 5 * ms

AtLeast200Kmh(distance, ms) == distance * 18 >= ms

Over1000Kmh(distance, ms) == distance * 18 > 5 * ms

Over200Kmh(distance, ms) == distance * 18 > ms

ImpossibleAsStated(distance, ms) == AtLeast1000Kmh(distance, ms) /\ distance >= 1000

SuspiciousAsStated(distance, ms) ==
    ~ImpossibleAsStated(distance, ms) /\ AtLeast200Kmh(distance, ms) /\ distance >= 500

ImpossibleStrict(distance, ms) == Over1000Kmh(distance, ms) /\ distance > 1000

SuspiciousStrict(distance, ms) ==
    ~ImpossibleStrict(distance, ms) /\ Over200Kmh(distance, ms) /\ distance > 500

\* C9 as stated: after an analysis, each consecutive pair of fixes with at
\* least 1000 km/h over at least 1 km has produced 'Impossible travel speed',
\* each other pair with at least 200 km/h over at least 500 m 'Suspicious
\* travel speed', and no other pair a speed indicator.
C9_SpeedBandsAtLeast ==
    Len(locationHistory) >= 2 =>
        /\ Count(analyzerIndicators, IndImpossibleSpeed) = Cardinality(Pairs(ImpossibleAsStated))
        /\ Count(analyzerIndicators, IndSuspiciousSpeed) = Cardinality(Pairs(SuspiciousAsStated))

\* C9, amended: the same with "more than" for each of the four limits: more
\* than 1000 km/h over more than 1 km, else more than 200 km/h over more than
\* 500 m.
C9_SpeedBandsMoreThan ==
    Len(locationHistory) >= 2 =>
        /\ Count(analyzerIndicators, IndImpossibleSpeed) = Cardinality(Pairs(ImpossibleStrict))
        /\ Count(analyzerIndicators, IndSuspiciousSpeed) = Cardinality(Pairs(SuspiciousStrict))

\* two fixes 10 m and 5 s apart, then one 2000 km and 5 s further
C9_StepThenJump ==
    /\ Len(locationHistory) = 3
    /\ locationHistory[2].north - locationHistory[1].north = 10
    /\ locationHistory[2].timestamp - locationHistory[1].timestamp = 5000
    /\ locationHistory[3].north - locationHistory[2].north = 2000000
    /\ locationHistory[3].timestamp - locationHistory[2].timestamp = 5000
    /\ Count(analyzerIndicators, IndImpossibleSpeed) = 1
    /\ Count(analyzerIndicators, IndSuspiciousSpeed) = 0

AllSameAccuracy ==
    \A i, j \in DOMAIN locationHistory :
        locationHistory[i].accuracy = locationHistory[j].accuracy

\* C10 as stated: after an analysis the static-accuracy indicator is there
\* exactly when all fixes of the window report the same accuracy, and the
\* common-value indicator exactly when that value is 10, 20, 50, 100 or 150.
C10_StaticAccuracyAnyWindow ==
    Len(locationHistory) >= 2 =>
        /\ Has(analyzerIndicators, IndStaticAccuracy) <=> AllSameAccuracy
        /\ Has(analyzerIndicators, IndCommonSpoofedAccuracy)
              <=> (AllSameAccuracy /\ locationHistory[1].accuracy \in {10, 20, 50, 100, 150})

\* C10, amended: the same for windows of at least three fixes; a window of
\* two fixes gets no static-accuracy indicator.
C10_StaticAccuracyFromThree ==
    /\ Len(locationHistory) >= 3 =>
          /\ Has(analyzerIndicators, IndStaticAccuracy) <=> AllSameAccuracy
          /\ Has(analyzerIndicators, IndCommonSpoofedAccuracy)
                <=> (AllSameAccuracy /\ locationHistory[1].accuracy \in {10, 20, 50, 100, 150})
    /\ Len(locationHistory) = 2 =>
          /\ ~Has(analyzerIndicators, IndStaticAccuracy)
          /\ ~Has(analyzerIndicators, IndCommonSpoofedAccuracy)

C10_ThreeFixesOfFifty ==
    /\ Len(locationHistory) = 3
    /\ \A i \in 1..3 : locationHistory[i].accuracy = 50
    /\ Has(analyzerIndicators, IndStaticAccuracy)
    /\ Has(analyzerIndicators, IndCommonSpoofedAccuracy)

----------------------------------------------------------------------------
(* The scans of the extension and VPN detectors.                           *)

ExtensionMethods == {1, 2, 3, 4, 5}

VPNMethods == {1, 2, 3, 4, 5, 6, 7}

\* C11: in the extension and VPN scans a probe that throws is swallowed and
\* does not stop the others: every scan that was invoked has returned a
\* result to its caller, nothing was thrown to the aggregator, and every
\* method of the signature scan and of detectVPN has executed.
C11_ProbeFaultsAreIsolated ==
    /\ uncaught = <<>>
    /\ extensionResult.done =>
          /\ ~extensionResult.result.threw
          /\ extensionResult.result.ran = ExtensionMethods
    /\ vpnResult.done =>
          /\ ~vpnResult.result.threw
          /\ vpnResult.result.ran = VPNMethods

\* C13: every result of detectBasicArtifacts, detectExtensionsBySignature,
\* performFullExtensionDetection and detectVPN that has a score above 0 has
\* detected = true.
C13_ScoreImpliesDetected ==
    /\ (extensionResult.done /\ ~extensionResult.result.threw) =>
          LET basic == detectBasicArtifacts(env, geoSupported)
              signature == detectExtensionsBySignature(env)
              full == extensionResult.result
          IN /\ basic.score > 0 => basic.detected
             /\ signature.score > 0 => signature.detected
             /\ full.score > 0 => full.detected
    /\ vpnResult.done => (vpnResult.result.score > 0 => vpnResult.result.detected)

\* C18: once the restore timers have fired, console.error is again the
\* function installed before the first scan began, also after several
\* invocations whose 100 ms windows overlapped.
C18_InterceptionIsUndone ==
    restoreTimers = <<>> => consoleError = 0

\* C12: a failure inside one of the ten checks of runChecks never aborts the
\* remaining checks and never leaves runChecks: every run has executed all
\* ten checks and produced a result with isMasked = (score >= 25).
C12_CheckFailuresStayInside ==
    maskingResult.done =>
        /\ ~maskingResult.result.threw
        /\ maskingResult.result.ran = 1..10
        /\ maskingResult.result.isMasked = (maskingResult.result.score >= 25)

\* the points getOverallRDPSuspicion is to award for one check result
Points(result, weight) == IF result.suspicion = "Suspicious" THEN weight ELSE 0

\* C14: getOverallRDPSuspicion awards 2, 3 and 2 points for a Suspicious
\* screen, WebGL and navigator result and nothing otherwise; 5 or more is
\* High/fake, 3 or 4 Medium/suspicious, less Low/authentic.  So WebGL alone
\* is Medium, screen or navigator alone is Low, and High needs WebGL and one
\* of the others.
C14_WeightedRdpVerdict ==
    rdpAssessment.done =>
        LET r == rdpAssessment.result
            s == r.screen.suspicion = "Suspicious"
            w == r.webgl.suspicion = "Suspicious"
            n == r.navigator.suspicion = "Suspicious"
            total == Points(r.screen, 2) + Points(r.webgl, 3) + Points(r.navigator, 2)
        IN /\ r.overall.score = total
           /\ total >= 5 => r.overall.level = "High" /\ r.overall.type = "fake"
           /\ total \in {3, 4} =>
                 r.overall.level = "Medium" /\ r.overall.type = "suspicious"
           /\ total < 3 => r.overall.level = "Low" /\ r.overall.type = "authentic"
           /\ (w /\ ~s /\ ~n) => r.overall.level = "Medium"
           /\ (~w /\ (s # n)) => r.overall.level = "Low"
           /\ r.overall.level = "High" => w /\ (s \/ n)

\* C14 witness: a llvmpipe renderer on a 16-bit screen is rated High
C14_WebGLAndScreenHigh ==
    /\ rdpAssessment.done
    /\ rdpAssessment.result.webgl.suspicion = "Suspicious"
    /\ rdpAssessment.result.screen.suspicion = "Suspicious"
    /\ rdpAssessment.result.navigator.suspicion = "Normal"
    /\ rdpAssessment.result.overall.level = "High"

\* the scores and indicator lists the passive checks, the monitors and the
\* masking step keep in environmentData
StoredScores ==
    {"devToolsScore", "consoleOverrideScore", "extensionScore", "vpnScore", "maskingScore"}

StoredLists ==
    {"devToolsIndicators", "consoleOverrides", "extensionIndicators", "vpnIndicators",
     "maskingIndicators"}

\* list `later` is list `earlier` with entries appended
Extends(later, earlier) ==
    /\ Len(later) >= Len(earlier)
    /\ \A i \in DOMAIN earlier : later[i] = earlier[i]

\* C15: every write to the aggregator's shared state appends or increments.
\* No step removes or lowers a stored score, shortens or replaces a stored
\* indicator list, lowers the location penalty or clears a detection flag.
C15_WritesOnlyAccumulate ==
    [][/\ \A k \in StoredScores \cap DOMAIN environmentData :
              /\ k \in DOMAIN environmentData'
              /\ environmentData'[k] >= environmentData[k]
       /\ \A k \in StoredLists \cap DOMAIN environmentData :
              /\ k \in DOMAIN environmentData'
              /\ Extends(environmentData'[k], environmentData[k])
       /\ locationSpoofingScore' >= locationSpoofingScore
       /\ Extends(locationSpoofingIndicators', locationSpoofingIndicators)
       /\ devToolsDetected => devToolsDetected'
       /\ extensionDetected => extensionDetected'
       /\ locationSpoofedByDevTools => locationSpoofedByDevTools'
       /\ locationSpoofedByBehavior => locationSpoofedByBehavior']_vars

\* C16: DevTools detection is deduplicated.  Whatever channels fire, however
\* often and in whatever order, the runtime increment of devToolsScore (+25)
\* is applied at most once in a session, and so is the location penalty
\* (+100 and one 'CRITICAL: DevTools detected' indicator).
C16_DevToolsScoredOnce ==
    /\ increments.devTools \in {0, 25}
    /\ locationSpoofingScore \in {0, 100}
    /\ Count(locationSpoofingIndicators, IndCriticalDevTools)
          = (IF locationSpoofingScore = 100 THEN 1 ELSE 0)
    /\ increments.devTools = 25 => devToolsDetected

\* C16 witness: the increment and the penalty have been applied, the panel
\* is still open and the polls go on
C16_PanelStaysOpen ==
    /\ increments.devTools = 25
    /\ locationSpoofingScore = 100
    /\ Count(locationSpoofingIndicators, IndCriticalDevTools) = 1
    /\ sizeDiff > 160
    /\ HasReport

\* C17: once an evaluation of the behavioural window scores 50 or more,
\* locationSpoofedByBehavior is set; no later step clears it, whatever the
\* later windows score; and from then on detectLocationSpoofing answers
\* spoofed, for every fix it could be given and in every report it feeds.
C17_BehaviorFlagLatches ==
    /\ [](analyzerScore >= 50 => locationSpoofedByBehavior)
    /\ [][locationSpoofedByBehavior => locationSpoofedByBehavior']_vars
    /\ [](locationSpoofedByBehavior =>
            \A fix \in Fixes :
                detectLocationSpoofing(fix, browserTimezone, SpoofingInputs).isLocationSpoofed)
    /\ [][(locationSpoofedByBehavior /\ pc = "locating" /\ outcome'.kind = "report")
            => outcome'.report.location.isSpoofed]_vars

\* C17 witness: the flag is set, the latest window scores less than 50, and
\* a report has been made
C17_FlagOutlivesWindow ==
    /\ locationSpoofedByBehavior
    /\ analyzerScore < 50
    /\ Len(locationHistory) = 3
    /\ HasReport
    /\ outcome.report.location.isSpoofed

\* C19: monitoring stops by itself.  Once startLocationMonitoring has started
\* a watch, whatever id the platform returned for it (0 included), eventually
\* the watch is cleared, watchId is null and monitoringActive is false, so
\* that a new startLocationMonitoring can start a fresh watch.
C19_MonitoringStops ==
    monitoringActive ~> (~monitoringActive /\ watchId = NoWatch)

\* "Stop monitoring after 2 minutes", in ms
TwoMinutes == 120000

\* C20: the automatic stop comes 2 minutes after startLocationMonitoring, so
\* that the watch is armed, and its fixes are appended and analysed, during
\* those 2 minutes: when the stop timer fires the clock is at least 2
\* minutes past the start of the monitoring.
C20_StopAfterTwoMinutes ==
    [][stopTimers' < stopTimers => now' >= monitoringSince + TwoMinutes]_vars

\* C21: the DevTools interval monitors stop after a bounded session
\* duration: in every run there is a point after which no poll callback
\* executes any more.  Each run of the module's poll arms one probe timer,
\* so from that point on no probe timer is armed.
C21_MonitorsStop ==
    <>[][probeTimers' <= probeTimers]_vars

\* C22: on a mobile user agent the dimension channel is skipped.  The
\* devtools-detected flag of the aggregator is raised only by a step of one
\* of the other channels: the key listener, the console-getter probe's timer
\* after the getter ran, or the DevTools globals seen at page load; never by
\* the initial check, a poll or the resize listener comparing window sizes.
C22_NoDimensionChannelOnMobile ==
    [][isMobile /\ ~devToolsDetected /\ devToolsDetected'
         => \/ KeyDown
            \/ ProbeTimeout /\ devToolsOpen
            \/ PageLoad /\ env.devtoolsHook]_vars

\* the last n elements of a sequence
LastN(s, n) ==
    IF Len(s) <= n THEN s ELSE SubSeq(s, Len(s) - n + 1, Len(s))

\* C23: after any sequence of analyzeLocationUpdate calls locationHistory
\* holds at most 10 fixes, and they are exactly the most recent fixes the
\* watch delivered, in arrival order.
C23_HistoryIsLastTen ==
    /\ Len(locationHistory) <= 10
    /\ locationHistory = LastN(arrivals, 10)

\* an 11th fix has arrived and the oldest one has gone
C23_EleventhFixEvictsOldest ==
    /\ Len(arrivals) = 11
    /\ Len(locationHistory) = 10
    /\ locationHistory[1] = arrivals[2]
    /\ locationHistory[10] = arrivals[11]

\* C24: the devtools-detected flag of the aggregator is sticky.  No step of
\* a probe, a poll, a key event, a resize or a full analysis takes it from
\* true back to false; the poll that re-arms the console-getter probe clears
\* the probe's own flag (devToolsOpen) and nothing of the aggregator's.
C24_DetectedFlagIsSticky ==
    [][/\ devToolsDetected => devToolsDetected'
       /\ devToolsOpen /\ ~devToolsOpen' /\ devToolsDetected
            => /\ devToolsDetected'
               /\ locationSpoofedByDevTools' = locationSpoofedByDevTools
               /\ locationSpoofingScore' = locationSpoofingScore]_vars

\* the probe raised the flag, the panel is not docked, the probe has been
\* re-armed and a full analysis has completed since
C24_RearmedAfterDetection ==
    /\ devToolsDetected
    /\ consoleShown /\ ~devToolsOpen /\ probeTimers > 0
    /\ sizeDiff = 0
    /\ HasReport

\* C25: performFullAnalysis runs environment detection, device-masking
\* detection, the location fix request and the spoofing evaluation in that
\* order, each after the previous one has completed, and every invocation
\* makes exactly one getCurrentPosition call, with high accuracy, a bounded
\* timeout and no cached result.
C25_OrderedStepsOneFix ==
    [][/\ pc # "masking" /\ pc' = "masking"
            => pc = "idle" /\ positionRequests' = <<>> /\ "rdpScore" \in DOMAIN environmentData'
       /\ pc # "locating" /\ pc' = "locating"
            => pc = "masking" /\ maskingResult'.done /\ ~maskingResult'.result.threw
       /\ outcome' # outcome /\ outcome'.kind = "report"
            => pc = "locating" /\ locationData'.present
       /\ pc # "idle" /\ pc' = "idle"
            => positionRequests' = <<PositionOptions>>]_vars

\* C26: the override disjuncts of detectLocationSpoofing never change the
\* verdict.  In every report, whatever the fix and whatever the monitors have
\* written to the aggregator, isSpoofed is true exactly when spoofingScore is
\* 20 or more: each critical indicator and each sticky flag brings at least
\* 20 points with it.
C26_VerdictIsScoreAtLeast20 ==
    HasReport =>
        (outcome.report.location.isSpoofed <=> outcome.report.location.spoofingScore >= 20)

\* a report on a fix that scores nothing by itself, spoofed through the
\* DevTools mark alone, whose 100 points are the whole score
C26_DevToolsMarkAloneScores100 ==
    /\ HasReport
    /\ locationSpoofedByDevTools
    /\ outcome.report.location.isSpoofed
    /\ outcome.report.location.spoofingScore = 100
    /\ Has(outcome.report.location.indicators, IndCriticalDevTools)

\* C27: once the aggregator's devToolsDetected flag is true, every report
\* that performFullAnalysis produces afterwards has devTools.detected = true.
C27_ReportsCarryDetection ==
    [][devToolsDetected /\ outcome' # outcome /\ outcome'.kind = "report"
         => outcome'.report.devTools.detected]_vars

\* C28: after every analyzeLocationUpdate that evaluates the window (two or
\* more fixes in the history), the aggregator's behavioralScore and
\* behavioralIndicators equal the ones the analyzer has just computed, also
\* when the latest window scores 0.
C28_AggregatorMirrorsAnalyzer ==
    Len(locationHistory) >= 2 =>
        /\ behavioralScore = analyzerScore
        /\ behavioralIndicators = analyzerIndicators

\* C29: the result of the signature scan is final when it returns.  When
\* the 100 ms timer finds that a matching console error was logged after
\* the return, its 20 points and its detected flag change neither the
\* score and the flag the scan returned nor the extension score, indicators
\* and flag the aggregator stored from performFullExtensionDetection.
C29_LateErrorChangesNothing ==
    [][lateHits' # lateHits
         => /\ extensionResult' = extensionResult
            /\ environmentData' = environmentData
            /\ extensionDetected' = extensionDetected]_vars

\* the only scan found nothing, an error was logged inside its window and
\* its timer has fired: the returned and the stored score are still 0
C29_LateErrorAfterCleanScan ==
    /\ scans = 1 /\ lateHits = {1} /\ restoreTimers = <<>>
    /\ extensionResult.done
    /\ extensionResult.result.score = 0 /\ ~extensionResult.result.detected
    /\ Get(environmentData, "extensionScore", -1) = 0
    /\ ~extensionDetected

\* C30: the report is built fresh on every full analysis.  Two consecutive
\* performFullAnalysis runs on the same aggregator, in the same environment,
\* given the same fix, with no background-monitor event before or between
\* them, return equal reports: no score or indicator accumulates.
C30_SameFixSameReport ==
    \A i, j \in DOMAIN runs :
        runs[i].fix = runs[j].fix => runs[i].report = runs[j].report

\* two runs on the same fix, in an environment where the masking checks and
\* the location checks both score
C30_TwoScoringRuns ==
    /\ Len(runs) = 2
    /\ runs[1].fix = runs[2].fix
    /\ runs[2].report.deviceMasking.score > 0
    /\ runs[2].report.location.spoofingScore > 0

====
